---- MODULE Spec2Model ----
(***************************************************************************)
(* Model of the simulation engine of src/components/GameCanvas.tsx: the    *)
(* fixed-step update() with spawn director, behaviour engine, projectile   *)
(* lifecycle and collision/damage resolver.                                *)
(*                                                                         *)
(* Abstractions.                                                           *)
(*  - Positions and velocities are not state.  Every predicate the code    *)
(*    evaluates on positions (two entities overlap, an entity is inside    *)
(*    an explosion radius, an entity left the arena, the boss reached its  *)
(*    anchor) is an input of the step, drawn with \E.                      *)
(*  - Math.random() choices are inputs of the step.                        *)
(*  - Entity ids (Date.now()/Math.random() strings) are allocated from     *)
(*    the counter nextId.                                                  *)
(*  - particles, HUD, audio and drawing are not modelled.                  *)
(*  - the enemy and projectile lists are bounded: a push beyond the bound  *)
(*    is dropped.                                                          *)
(***************************************************************************)
EXTENDS Integers, Sequences, FiniteSets, TLC

VARIABLES cfg, state, outcomes, log, isPaused, ticks, accumulator, frameSteps

vars == <<cfg, state, outcomes, log, isPaused, ticks, accumulator, frameSteps>>

Null == "null"

(* state.boss holds the id of the boss; null is 0, which is no id *)
NoBoss == 0

(***************************************************************************)
(* Bounds of the model.                                                    *)
(***************************************************************************)
MaxTicks == 12
MaxEnemies == 3
MaxBullets == 3
MaxEvents == 2
(* the enemy list may grow to MaxKin when a boss adds its dependents *)
MaxKin == 34
(* how many steps before an event a scripted run stops *)
Lead == 3

(***************************************************************************)
(* Generic helpers.                                                        *)
(***************************************************************************)
Min(a, b) == IF a < b THEN a ELSE b

Max(a, b) == IF a > b THEN a ELSE b

Ids(seq) == {seq[i].id : i \in 1..Len(seq)}

(* x * permille / 1000; exact for the hp values of the runs *)
Share(x, permille) == (x * permille) \div 1000

(***************************************************************************)
(* Program constants (src/components/GameCanvas.tsx).                      *)
(***************************************************************************)
PLAYER_BASE_HP == 100
(* lengths and positions are kept in hundredths of a pixel; the arena's    *)
(* size comes from the constants module imported at line 5                 *)
CANVAS_WIDTH == 60000
CANVAS_HEIGHT == 80000
PLAYER_SIZE == 800
PLAYER_SPEED == 500
GRAVITY_PERIOD == 1800
HIT_DAMAGE == 20
KAMIKAZE_DAMAGE == 30
MINE_DAMAGE == 30
MINE_HP == 50
MINE_FUSE == 480
HIT_INVULN == 60
SHIELD_INVULN == 30
REVIVE_INVULN == 120
REVIVE_BLAST_DAMAGE == 500
AEGIS_BLAST_DAMAGE == 100
BASE_FIRE_RATE == 6
BOSS_STAGE_TIME == 1800
WAVE_DELAY == 120
PHASE_TRANSITION_TICKS == 120
PHASE_SHIELD_TICKS == 300
BOSS_HP_BASE == 2500
BOSS_RUSH_START_HP == 5000
BOSS_SCORE == 5000
STAGE_CLEAR_SCORE == 10000
GHOST_HP == 999999
MIN_COOLDOWN == 60
DILATOR_TICKS == 300
GAUSS_PERIOD == 40
(* the summon interval of the first stage: 720 - (1 - 2) * 120 (line 1000) *)
SUMMON_PERIOD == 840
(* the time scale is kept in fifths: 5 is state.timeScale = 1.0 (line 103) *)
FIFTHS == 5
REGEN_THRESHOLD == 600
ORBITAL_STRIKE_DAMAGE == 3000
EMP_DAMAGE == 200
MOB_SHOT_PERIOD == 120
(* updates of e.y += (100 - e.y) * 0.02 from y = -100 until |e.y - 100| < 1 *)
ENTER_TICKS == 263
SUMMON_HP == 30
ALP_FIRE_RATE == 30
ULTIMATE_TICKS == 1200
SERAPH_DRONES == 6
ORACLE_SPAWN_PERIOD == 360
MAX_STAGES == 6
MAX_STAGES_RUSH == 16
PRACTICE_SECONDS == 60

IsBossRush(d) == d = "BOSS_RUSH"

(* EASY_MOBS (line 23): the mob kinds whose behaviour is modelled *)
EASY_MOBS == {"drone", "kamikaze"}

(* the variants list of generateBoss *)
Variants(d) ==
  IF d \in {"HARD", "EXTREME", "INFINITY"}
  THEN <<"alpha", "beta", "gamma", "delta", "theta", "somniomancer", "revenant", "alptraum">>
  ELSE <<"alpha", "beta", "gamma", "delta", "theta">>

(* the variants the random draw of a step is taken among; delta, theta and *)
(* alptraum are played in the runs that name them                          *)
ModelledVariants == {"alpha", "somniomancer"}

VariantChoices(d) == {Variants(d)[i] : i \in 1..Len(Variants(d))} \cap ModelledVariants

(* 1 + stage * 0.2 as a percentage, and the x1 of practice mode *)
MobHpPercent(c, stage) ==
  IF c.practice # "none" THEN 100
  ELSE IF c.difficulty = "INFINITY" THEN 100 + stage * 80 ELSE 100 + stage * 20

MobBaseHp(mobType) == IF mobType = "drone" THEN 30 ELSE 40

MobScore(mobType) == IF mobType = "drone" THEN 100 ELSE 400

(* spawn interval of spawnEnemy *)
SpawnRate(d) ==
  IF d = "EXTREME" THEN 10
  ELSE IF d = "HARD" THEN 15 ELSE IF d = "EASY" THEN 50 ELSE 30

(* spawn interval of the stage director; the endless difficulty speeds up  *)
(* with the stage (lines 385-391)                                          *)
StageSpawnRate(d, stage) ==
  IF d = "INFINITY" THEN Max(4, 15 - stage * 3) ELSE SpawnRate(d)

(* boss fire rate, per difficulty *)
FireRate(d) ==
  IF d \in {"HARD", "BOSS_RUSH"} THEN 25
  ELSE IF d = "EASY" THEN 60 ELSE IF d = "EXTREME" THEN 15 ELSE 45

(* difficulty multiplier of the boss hp, in tenths *)
DifficultyTenths(d) ==
  IF d = "EASY" THEN 6 ELSE IF d = "HARD" THEN 15 ELSE IF d = "EXTREME" THEN 20 ELSE 10

(* finalHp of generateBoss; the modelled variants carry no hp factor.  The  *)
(* endless multiplier 2.5 * (1 + 0.75 * stage) is (2000 + 1500 * stage) /  *)
(* 800, and the half point it can leave is dropped.                        *)
BossFinalHp(c, stage) ==
  IF c.practice # "none" THEN (BOSS_HP_BASE * DifficultyTenths(c.difficulty) * 2) \div 10
  ELSE IF IsBossRush(c.difficulty)
       THEN BOSS_RUSH_START_HP + ((20000 - BOSS_RUSH_START_HP) * Min(14, stage - 1)) \div 14
       ELSE IF c.difficulty = "INFINITY"
       THEN (BOSS_HP_BASE * stage * (2000 + 1500 * stage)) \div 800
       ELSE (BOSS_HP_BASE * stage * DifficultyTenths(c.difficulty)) \div 10

LootMult(d) ==
  IF d = "NORMAL" THEN 2 ELSE IF d = "HARD" THEN 4 ELSE IF d = "EXTREME" THEN 8
  ELSE IF d = "INFINITY" THEN 10 ELSE 1

BossRushMult(d) == IF IsBossRush(d) THEN 3 ELSE 1

(***************************************************************************)
(* Entity records.                                                         *)
(***************************************************************************)
NewEnemy(id, type, hp, score) ==
  [id |-> id, type |-> type, variant |-> Null, hp |-> hp, maxHp |-> hp,
   dead |-> FALSE, scoreValue |-> score, shotTimer |-> 0,
   state |-> Null, phase |-> 0, phaseTransitionTimer |-> 0,
   dmgReduction |-> 0, dmgReductionTimer |-> 0,
   isGhost |-> FALSE, frozenTimer |-> 0, approach |-> 0, setupRuns |-> 0,
   parentId |-> 0, trinityActive |-> FALSE, trinityTimer |-> 0,
   duoActive |-> FALSE, duoTimer |-> 0,
   shieldActive |-> FALSE, shieldHp |-> 0, shieldTimer |-> 0,
   isReflecting |-> FALSE, patternTimer |-> 0, summonBatchCount |-> 0,
   ghostType |-> Null, ghostState |-> Null, ghostTimer |-> 0,
   gravityDir |-> [x |-> 0, y |-> 0], gravityTimer |-> 0]

(* the record pushed by spawnSpecificMob *)
MobRecord(c, st, mobType, seed) ==
  [NewEnemy(st.nextId, mobType, (MobBaseHp(mobType) * MobHpPercent(c, st.stage)) \div 100,
            MobScore(mobType))
     EXCEPT !.shotTimer = seed]

(* the record built by generateBoss: entering, phase 1, 50% shield for 300 *)
(* ticks, the hp factor 1.3 of revenant (line 251) and the absorbing       *)
(* shield of alptraum (lines 307-311)                                      *)
BossRecord(c, st, variant) ==
  [NewEnemy(st.nextId, "boss",
            IF variant = "revenant" THEN (BossFinalHp(c, st.stage) * 13) \div 10
            ELSE BossFinalHp(c, st.stage),
            BOSS_SCORE * st.stage)
     EXCEPT !.variant = variant, !.state = "entering", !.phase = 1,
            !.dmgReduction = 50, !.dmgReductionTimer = PHASE_SHIELD_TICKS,
            !.approach = ENTER_TICKS,
            !.shieldActive = variant = "alptraum",
            !.shieldHp = IF variant = "alptraum" THEN Share(BossFinalHp(c, st.stage), 150) ELSE 0]

(* the record pushed by spawnGhostDrone (lines 160-180); Math.random() *   *)
(* 180 is three times the draw of 0..59                                    *)
GhostRecord(ghostType, seed) ==
  [NewEnemy(0, "drone", GHOST_HP, 0)
     EXCEPT !.isGhost = TRUE, !.ghostType = ghostType, !.ghostState = "idle",
            !.ghostTimer = 240 + 3 * seed]

(* the drones pushed after a delta boss (lines 320-343) *)
SeraphRecord(hp, score, parentId, seed) ==
  [NewEnemy(0, "seraph_drone", hp, score) EXCEPT !.parentId = parentId, !.shotTimer = seed]

(* the sub-minions of the Alptraum ultimates (lines 1339-1355, 1371-1387) *)
MiniRecord(boss, variant) ==
  [NewEnemy(0, "alp_mini_boss",
            Share(boss.maxHp, IF variant \in {"delta", "theta"} THEN 225 ELSE 150),
            IF variant \in {"delta", "theta"} THEN 1200 ELSE 1000)
     EXCEPT !.variant = variant, !.parentId = boss.id]

(* the minions of a theta boss (line 1125) *)
OracleRecord(boss, isOrbit, seed) ==
  [NewEnemy(0, "oracle_minion", Share(boss.maxHp, 30), 500)
     EXCEPT !.variant = IF isOrbit THEN "alpha" ELSE "beta", !.parentId = boss.id,
            !.shotTimer = seed]

(* the reflectors of the Alptraum rain (lines 1303-1311) *)
ReflectorRecord ==
  [NewEnemy(0, "alp_reflector", 500, 50) EXCEPT !.isReflecting = TRUE]

(* the somniomancer replica of the phase-2 setup *)
ReplicaRecord(id) ==
  [NewEnemy(id, "boss_clone", GHOST_HP, 0) EXCEPT !.variant = "somniomancer", !.phase = 2]

PlayerBullet(weaponId, damage) ==
  [id |-> 0, owner |-> "player", damage |-> damage, dead |-> FALSE, weaponId |-> weaponId,
   piercing |-> weaponId \in {"LASER_STREAM", "GAUSS_CANNON"},
   hitList |-> {},
   splashRadius |-> IF weaponId = "ROCKET_BARRAGE" THEN 60 ELSE 0,
   source |-> Null, struck |-> <<>>, chainCount |-> 0, pos |-> 0, aim |-> 0,
   isMine |-> FALSE, hp |-> 0, timer |-> 0]

EnemyBullet(damage, source) ==
  [id |-> 0, owner |-> "enemy", damage |-> damage, dead |-> FALSE, weaponId |-> Null,
   piercing |-> FALSE, hitList |-> {}, splashRadius |-> 0, source |-> source,
   struck |-> <<>>, chainCount |-> 0, pos |-> 0, aim |-> 0,
   isMine |-> FALSE, hp |-> 0, timer |-> 0]

(* the mine of revenant (lines 1231-1236); timer is kept for mines only *)
MineRecord(source) == [EnemyBullet(MINE_DAMAGE, source) EXCEPT !.isMine = TRUE, !.hp = MINE_HP]

(***************************************************************************)
(* gameState after construction (lines 65-117), for the props c.           *)
(***************************************************************************)
Construct(c) ==
  [player |-> [hp |-> (PLAYER_BASE_HP * (100 + 5 * c.pityStacks)) \div 100,
               maxHp |-> (PLAYER_BASE_HP * (100 + 5 * c.pityStacks)) \div 100,
               invulnerableTime |-> 0, framesSinceLastHit |-> 0,
               shield |-> 0, revives |-> IF c.extraLife THEN 1 ELSE 0,
               equippedSpells |-> c.equippedSpells,
               spellCooldowns |-> [k \in DOMAIN c.equippedSpells |-> 0],
               activeBuffs |-> [TIME_DILATOR |-> 0],
               x |-> CANVAS_WIDTH \div 2, y |-> CANVAS_HEIGHT - 10000,
               width |-> PLAYER_SIZE, height |-> PLAYER_SIZE, vx |-> 0, vy |-> 0],
   bullets |-> <<>>, enemies |-> <<>>,
   frame |-> 0, score |-> 0, stage |-> 1, stageTimer |-> 0,
   bossActive |-> FALSE, boss |-> NoBoss, dataFragments |-> 0,
   waveDelay |-> 0, isGameOver |-> FALSE, timeScale |-> FIFTHS,
   stats |-> [kills |-> 0, bossKills |-> 0, shotsFired |-> 0],
   practiceTimer |-> 0, nextId |-> 1]

EmptyLog ==
  [payouts |-> <<>>, marked |-> {}, mobSpawns |-> <<>>, bossEmits |-> {},
   flipped |-> {}, bossSpawns |-> 0, deadSkips |-> {}, listSkips |-> {}, paid |-> <<>>,
   chains |-> <<>>, ultimates |-> <<>>, held |-> {}, fallbacks |-> <<>>, orphans |-> {},
   casts |-> <<>>, moves |-> {}, late |-> {}, contacts |-> {}, after |-> {}, dealt |-> {},
   revived |-> {}, hurtAt |-> {}, rings |-> {}]

(***************************************************************************)
(* The world threaded through one step: st is gameState, out the calls of  *)
(* onGameOver so far, log the events of the current step.                  *)
(***************************************************************************)
NumEnemies(w) == Len(w.st.enemies)

MarkDead(w, i) ==
  [w EXCEPT !.st.enemies[i].dead = TRUE,
            !.log.marked = @ \cup {w.st.enemies[i].id}]

RECURSIVE MarkAllDead(_, _)
MarkAllDead(w, is) ==
  IF is = {} THEN w
  ELSE LET i == CHOOSE j \in is : TRUE
       IN MarkAllDead(MarkDead(w, i), is \ {i})

PushEnemy(w, e) ==
  IF NumEnemies(w) < MaxEnemies
  THEN [w EXCEPT !.st.enemies = Append(@, [e EXCEPT !.id = w.st.nextId]),
                 !.st.nextId = @ + 1]
  ELSE w

(* the push of an entity that a boss brings with it *)
PushKin(w, e) ==
  IF NumEnemies(w) < MaxKin
  THEN [w EXCEPT !.st.enemies = Append(@, [e EXCEPT !.id = w.st.nextId]),
                 !.st.nextId = @ + 1]
  ELSE w

RECURSIVE PushKins(_, _)
PushKins(w, es) ==
  IF es = <<>> THEN w ELSE PushKins(PushKin(w, Head(es)), Tail(es))

PushBullet(w, b) ==
  IF Len(w.st.bullets) < MaxBullets
  THEN [w EXCEPT !.st.bullets = Append(@, [b EXCEPT !.id = w.st.nextId]),
                 !.st.nextId = @ + 1]
  ELSE w

RECURSIVE PushBullets(_, _)
PushBullets(w, bs) ==
  IF bs = <<>> THEN w ELSE PushBullets(PushBullet(w, Head(bs)), Tail(bs))

Copies(n, b) == [k \in 1..n |-> b]

(* onGameOver(score, win, fragments, stats) *)
EmitGameOver(w, win, fragments) ==
  [w EXCEPT !.out = Append(@, [score |-> w.st.score, win |-> win,
                               fragments |-> fragments, stage |-> w.st.stage,
                               detailed |-> TRUE, stats |-> w.st.stats])]

(* onGameOver(state.score, true, 0, {}) of the practice wins *)
EmitPracticeWin(w) ==
  [w EXCEPT !.out = Append(@, [score |-> w.st.score, win |-> TRUE,
                               fragments |-> 0, stage |-> 0, detailed |-> FALSE,
                               stats |-> [kills |-> 0, bossKills |-> 0, shotsFired |-> 0]])]

(***************************************************************************)
(* createExplosion (lines 467-487): every enemy inside the radius loses    *)
(* finalDamage, except boss clones.  victims is the set of indices inside  *)
(* the radius.  No dead flag is consulted and none is set.                 *)
(***************************************************************************)
(* damageMultiplier (line 60) and the attack booster, in percent; the      *)
(* products are exact for the props of the runs (no booster, 0 or 50       *)
(* stacks)                                                                 *)
damageMultiplier(c) == 100 + 2 * c.pityStacks

Boosted(c, damage) ==
  (damage * (IF c.attackUp THEN 125 ELSE 100) * damageMultiplier(c)) \div 10000

(* lines 469-470: the explosion multiplies its damage argument by the      *)
(* booster and by damageMultiplier                                         *)

ExplosionDamage(c, damage) == Boosted(c, damage)

(* after holds the enemies whose hp was lowered while they were marked     *)
(* dead, flagged as ghosts or covered by a shield pool, with the kind of   *)
(* the damage                                                              *)
Posthumous(w, i, amount, kind) ==
  LET e == w.st.enemies[i]
      shielded == e.shieldActive /\ e.shieldHp > 0
  IN IF (e.dead \/ e.isGhost \/ shielded) /\ amount > 0
     THEN [w EXCEPT !.log.after = @ \cup {[id |-> e.id, type |-> e.type, kind |-> kind,
                                           dead |-> e.dead, ghost |-> e.isGhost,
                                           shielded |-> shielded]}]
     ELSE w

RECURSIVE DamageAll(_, _, _, _)
DamageAll(w, is, amount, kind) ==
  IF is = {} THEN w
  ELSE LET i == CHOOSE j \in is : TRUE
       IN DamageAll([Posthumous(w, i, amount, kind) EXCEPT !.st.enemies[i].hp = @ - amount],
                    is \ {i}, amount, kind)

createExplosion(w, c, victims, damage, kind) ==
  DamageAll(w, {i \in victims : i <= NumEnemies(w) /\ w.st.enemies[i].type # "boss_clone"},
            ExplosionDamage(c, damage), kind)

AllEnemies(w) == 1..NumEnemies(w)

(***************************************************************************)
(* activateSpell(index) (lines 489-565); the slots are numbered from 1.    *)
(***************************************************************************)
SpellCooldown(c, spellId) ==
  LET base == (c.cooldownSec * 60 * 100) \div (100 + 2 * c.pityStacks)
      cut == IF spellId = "EMP_BLAST" /\ c.spellLevel >= 2 THEN base - 300
             ELSE IF spellId = "PHANTOM_DASH" /\ c.spellLevel >= 3 THEN base - 600
             ELSE base
  IN Max(MIN_COOLDOWN, cut)

(* lines 517-523 *)
DilatorDuration(lvl) ==
  DILATOR_TICKS + (IF lvl >= 2 THEN 120 ELSE 0) + (IF lvl >= 3 THEN 180 ELSE 0)

NanoRepair(c, p) ==
  LET healed == Min(p.maxHp, p.hp + (p.maxHp * (IF c.spellLevel >= 2 THEN 50 ELSE 30)) \div 100)
  IN IF c.spellLevel >= 3 THEN Min(p.maxHp, healed + 20) ELSE healed

(* lines 553-556 *)
AegisAmount(lvl) == IF lvl >= 2 THEN 80 ELSE 50

SpellEffect(w, c, spellId) ==
  CASE spellId = "EMP_BLAST" ->
         LET cleared == [w EXCEPT !.st.bullets = SelectSeq(@, LAMBDA b : b.owner = "player")]
         IN IF c.spellLevel >= 3
            THEN DamageAll(cleared, AllEnemies(cleared),
                           (EMP_DAMAGE * damageMultiplier(c)) \div 100, "spell")
            ELSE cleared
    [] spellId = "TIME_DILATOR" ->
         [w EXCEPT !.st.player.activeBuffs.TIME_DILATOR = DilatorDuration(c.spellLevel)]
    [] spellId = "ORBITAL_STRIKE" ->
         DamageAll(w, AllEnemies(w),
                   ((IF c.spellLevel >= 3 THEN 2 * ORBITAL_STRIKE_DAMAGE
                     ELSE ORBITAL_STRIKE_DAMAGE) * damageMultiplier(c)) \div 100,
                   "spell")
    [] spellId = "NANO_REPAIR" ->
         [w EXCEPT !.st.player.hp = NanoRepair(c, w.st.player)]
    [] spellId = "AEGIS_SHIELD" ->
         [w EXCEPT !.st.player.shield = @ + AegisAmount(c.spellLevel)]
    [] OTHER -> w

(* the spell of the slot takes effect *)
CastSpell(w, c, index) ==
  LET spellId == w.st.player.equippedSpells[index]
      cast == [w EXCEPT !.st.player.spellCooldowns[index] = SpellCooldown(c, spellId),
                        !.log.casts = Append(@, [slot |-> index, spell |-> spellId])]
  IN SpellEffect(cast, c, spellId)

(* the activation without the test of the cooldown *)
activateSpellAnyTime(w, c, index) ==
  IF index \notin DOMAIN w.st.player.equippedSpells THEN w ELSE CastSpell(w, c, index)

activateSpell(w, c, index) ==
  IF index \notin DOMAIN w.st.player.equippedSpells THEN w
  ELSE IF w.st.player.spellCooldowns[index] <= 0 THEN CastSpell(w, c, index)
       ELSE w

(***************************************************************************)
(* Weapon emission (lines 675-810).                                        *)
(***************************************************************************)
WeaponDamage(weaponId, lvl) ==
  CASE weaponId = "PLASMA_CUTTER" -> IF lvl >= 2 THEN 13 ELSE 10
    [] weaponId = "LASER_STREAM" -> 34
    [] weaponId = "ROCKET_BARRAGE" -> 10
    [] weaponId = "CHAIN_LIGHTNING" -> IF lvl >= 2 THEN 39 ELSE 27
    [] weaponId = "GAUSS_CANNON" -> 800
    [] weaponId = "ORBITING_ORBS" -> IF lvl >= 2 THEN 20 ELSE 15
    [] OTHER -> 0

(* chainCount of the emission: the jumps of CHAIN_LIGHTNING (lines         *)
(* 739-745), the piercing count of GAUSS_CANNON (lines 777-785)            *)
ChainJumps(weaponId, lvl) ==
  IF weaponId = "CHAIN_LIGHTNING" THEN (IF lvl >= 3 THEN 8 ELSE 4)
  ELSE IF weaponId = "GAUSS_CANNON" THEN (IF lvl >= 3 THEN 99 ELSE IF lvl >= 2 THEN 3 ELSE 1)
  ELSE 0

(* the cadence of a weapon inside the gate of line 681 *)
WeaponDue(weaponId, frame) == weaponId = "GAUSS_CANNON" => frame % GAUSS_PERIOD = 0

(* lines 765-776: an orb is added on a frame that 10 divides while fewer   *)
(* than maxOrbs orbs of the player are not dead                            *)
OrbRoom(w, c) ==
  LET existingOrbs == Cardinality({k \in DOMAIN w.st.bullets :
                                     /\ w.st.bullets[k].owner = "player"
                                     /\ w.st.bullets[k].weaponId = "ORBITING_ORBS"
                                     /\ ~w.st.bullets[k].dead})
      maxOrbs == IF c.weaponLevel = 1 THEN 2 ELSE IF c.weaponLevel = 2 THEN 3 ELSE 4
  IN existingOrbs < maxOrbs /\ w.st.frame % 10 = 0

RECURSIVE FireWeapons(_, _, _)
FireWeapons(w, c, weapons) ==
  IF weapons = <<>> THEN w
  ELSE LET wId == Head(weapons)
           shot == [PlayerBullet(wId, Boosted(c, WeaponDamage(wId, c.weaponLevel)))
                      EXCEPT !.chainCount = ChainJumps(wId, c.weaponLevel),
                             !.splashRadius = IF wId = "ROCKET_BARRAGE" /\ c.weaponLevel >= 2
                                              THEN 90 ELSE @]
           counted == [w EXCEPT !.st.stats.shotsFired = @ + 1]
       IN FireWeapons(IF WeaponDue(wId, w.st.frame) /\ (wId = "ORBITING_ORBS" => OrbRoom(w, c))
                      THEN PushBullets(counted, <<shot>>)
                      ELSE counted, c, Tail(weapons))

Fire(w, c, keys) ==
  IF "KeyZ" \in keys /\ w.st.frame % BASE_FIRE_RATE = 0
  THEN FireWeapons(w, c, c.weapons)
  ELSE w

(***************************************************************************)
(* Positional predicates arrive as selectors, resolved against the list    *)
(* at the moment the code evaluates them.                                  *)
(***************************************************************************)
Sel(mode, n) ==
  CASE mode = "all" -> 1..n
    [] mode = "first" -> IF n >= 1 THEN {1} ELSE {}
    [] mode = "last" -> IF n >= 1 THEN {n} ELSE {}
    [] OTHER -> {}

(* indices of the enemies inside an explosion centred away from them *)
BlastVictims(w, in) == Sel(in.blast, NumEnemies(w))

(***************************************************************************)
(* generateBoss (lines 182-347).                                           *)
(***************************************************************************)
BossVariant(c, st, forced, rolled) ==
  IF forced # Null THEN forced
  ELSE IF IsBossRush(c.difficulty)
       THEN Variants(c.difficulty)[((st.stage - 1) % Len(Variants(c.difficulty))) + 1]
       ELSE rolled

(* lines 255-343: the ghost drone of alptraum goes in first, then the boss, *)
(* then the drones of delta                                                *)
BossArrival(w, c, variant, seed) ==
  LET ghosted == IF variant = "alptraum" THEN PushKin(w, GhostRecord("gorgon", seed)) ELSE w
      boss == BossRecord(c, ghosted.st, variant)
      active == [ghosted EXCEPT !.st.bossActive = TRUE, !.st.boss = boss.id,
                                !.st.enemies = Append(@, boss), !.st.nextId = @ + 1,
                                !.log.bossSpawns = @ + 1]
  IN IF variant = "delta"
     THEN PushKins(active, Copies(SERAPH_DRONES, SeraphRecord(Share(boss.maxHp, 250), 500,
                                                              boss.id, seed)))
     ELSE active

(* generateBoss without its guard on bossActive *)
generateBossUnguarded(w, c, forced, rolled, seed) ==
  BossArrival(w, c, BossVariant(c, w.st, forced, rolled), seed)

generateBoss(w, c, forced, rolled, seed) ==
  IF w.st.bossActive THEN w
  ELSE BossArrival(w, c, BossVariant(c, w.st, forced, rolled), seed)

(***************************************************************************)
(* spawnSpecificMob (lines 408-465) and spawnEnemy (lines 349-406).        *)
(***************************************************************************)
spawnSpecificMob(w, c, mobType, seed) ==
  PushEnemy(w, MobRecord(c, w.st, mobType, seed))

(* the spawn director's call of spawnSpecificMob, with what it saw *)
DirectorSpawn(w, c, mobType, seed) ==
  LET seen == [bossActive |-> w.st.bossActive, waveDelay |-> w.st.waveDelay,
               difficulty |-> c.difficulty, practice |-> c.practice]
  IN spawnSpecificMob([w EXCEPT !.log.mobSpawns = Append(@, seen)], c, mobType, seed)

(* spawnEnemy without its guard on waveDelay *)
spawnEnemyNoDelay(w, c, in) ==
  LET t == w.st.frame
  IN IF c.practice = "boss"
     THEN IF ~w.st.bossActive /\ w.st.boss = NoBoss
          THEN generateBoss(w, c, c.practiceVariant, in.variant, in.seed) ELSE w
     ELSE IF c.practice = "mob"
     THEN IF t % SpawnRate(c.difficulty) = 0
          THEN DirectorSpawn(w, c, c.practiceMob, in.seed) ELSE w
     ELSE IF IsBossRush(c.difficulty)
     THEN IF w.st.bossActive THEN w
          ELSE IF w.st.waveDelay <= 0 THEN generateBoss(w, c, Null, in.variant, in.seed) ELSE w
     ELSE IF w.st.bossActive THEN w
     ELSE LET spawned == IF t % StageSpawnRate(c.difficulty, w.st.stage) = 0
                         THEN DirectorSpawn(w, c, in.mob, in.seed) ELSE w
          IN IF spawned.st.stageTimer > BOSS_STAGE_TIME /\ ~spawned.st.bossActive
             THEN generateBoss(spawned, c, Null, in.variant, in.seed) ELSE spawned

(* spawnEnemy without its practice branch *)
spawnEnemyNoPractice(w, c, in) ==
  LET t == w.st.frame
  IN IF IsBossRush(c.difficulty)
     THEN IF w.st.bossActive THEN w
          ELSE IF w.st.waveDelay <= 0 THEN generateBoss(w, c, Null, in.variant, in.seed) ELSE w
     ELSE IF w.st.bossActive THEN w
     ELSE IF w.st.waveDelay > 0 THEN w
     ELSE LET spawned == IF t % StageSpawnRate(c.difficulty, w.st.stage) = 0
                         THEN DirectorSpawn(w, c, in.mob, in.seed) ELSE w
          IN IF spawned.st.stageTimer > BOSS_STAGE_TIME /\ ~spawned.st.bossActive
             THEN generateBoss(spawned, c, Null, in.variant, in.seed) ELSE spawned

spawnEnemy(w, c, in) ==
  LET t == w.st.frame
  IN IF c.practice = "boss"
     THEN IF ~w.st.bossActive /\ w.st.boss = NoBoss
          THEN generateBoss(w, c, c.practiceVariant, in.variant, in.seed) ELSE w
     ELSE IF c.practice = "mob"
     THEN IF t % SpawnRate(c.difficulty) = 0
          THEN DirectorSpawn(w, c, c.practiceMob, in.seed) ELSE w
     ELSE IF IsBossRush(c.difficulty)
     THEN IF w.st.bossActive THEN w
          ELSE IF w.st.waveDelay <= 0 THEN generateBoss(w, c, Null, in.variant, in.seed) ELSE w
     ELSE IF w.st.bossActive THEN w
     ELSE IF w.st.waveDelay > 0 THEN w
     ELSE LET spawned == IF t % StageSpawnRate(c.difficulty, w.st.stage) = 0
                         THEN DirectorSpawn(w, c, in.mob, in.seed) ELSE w
          IN IF spawned.st.stageTimer > BOSS_STAGE_TIME /\ ~spawned.st.bossActive
             THEN generateBoss(spawned, c, Null, in.variant, in.seed) ELSE spawned

(***************************************************************************)
(* The player is brought to hp <= 0: revive or loss (lines 1943-1946 and   *)
(* the kamikaze branch of line 1604).                                      *)
(***************************************************************************)
(* revived holds, for every revive of the step, the player as the revive   *)
(* found and left it and the outcome events it emitted                     *)
Revived(w, r) ==
  [r EXCEPT !.log.revived = @ \cup {[fallen |-> w.st.player.hp,
                                     had |-> w.st.player.revives,
                                     revives |-> r.st.player.revives,
                                     hp |-> r.st.player.hp, maxHp |-> r.st.player.maxHp,
                                     invulnerableTime |-> r.st.player.invulnerableTime,
                                     emitted |-> Len(r.out) - Len(w.out)]}]

(* the end of the run without a test of the revives *)
PlayerDownNoRevive(w, c, in) ==
  EmitGameOver([w EXCEPT !.st.isGameOver = TRUE], FALSE, w.st.dataFragments)

(* the loss without its outcome event *)
PlayerDownSilent(w, c, in) ==
  IF w.st.player.revives > 0
  THEN Revived(w, createExplosion([w EXCEPT !.st.player.revives = @ - 1,
                                            !.st.player.hp = w.st.player.maxHp,
                                            !.st.player.invulnerableTime = REVIVE_INVULN],
                                  c, BlastVictims(w, in), REVIVE_BLAST_DAMAGE, "revive"))
  ELSE [w EXCEPT !.st.isGameOver = TRUE]

PlayerDown(w, c, in) ==
  IF w.st.player.revives > 0
  THEN Revived(w, createExplosion([w EXCEPT !.st.player.revives = @ - 1,
                                            !.st.player.hp = w.st.player.maxHp,
                                            !.st.player.invulnerableTime = REVIVE_INVULN],
                                  c, BlastVictims(w, in), REVIVE_BLAST_DAMAGE, "revive"))
  ELSE EmitGameOver([w EXCEPT !.st.isGameOver = TRUE], FALSE, w.st.dataFragments)

(***************************************************************************)
(* Behaviour of one enemy (body of the forEach of lines 815-1619).         *)
(***************************************************************************)
ShieldTimer(e) ==
  IF e.dmgReductionTimer > 0
  THEN [e EXCEPT !.dmgReductionTimer = @ - 1,
                 !.dmgReduction = IF e.dmgReductionTimer - 1 <= 0 THEN 0 ELSE @]
  ELSE e

(* the setup of lines 895-927, run on the boss at index i *)
PhaseSetup(w, i, in) ==
  LET e == w.st.enemies[i]
      flipped == [w EXCEPT !.st.enemies[i] =
                             [e EXCEPT !.phase = 2,
                                       !.phaseTransitionTimer = PHASE_TRANSITION_TICKS,
                                       !.dmgReduction = 50,
                                       !.dmgReductionTimer = PHASE_SHIELD_TICKS,
                                       !.setupRuns = @ + 1],
                          !.log.flipped = @ \cup {e.id}]
      cleared == [flipped EXCEPT !.st.bullets =
                    [k \in DOMAIN @ |-> IF @[k].owner = "player"
                                        THEN [@[k] EXCEPT !.dead = TRUE] ELSE @[k]]]
  IN IF e.variant = "somniomancer" THEN PushEnemy(cleared, ReplicaRecord(0))
     ELSE IF e.variant = "alptraum" THEN PushKin(cleared, GhostRecord("tank", in.seed))
     ELSE cleared

(* the trigger without its test of the phase *)
PhaseTriggerUnguarded(w, c, i, in) ==
  IF w.st.enemies[i].hp * 10 < w.st.enemies[i].maxHp * 4 THEN PhaseSetup(w, i, in) ELSE w

(* the trigger with a threshold of 30% *)
PhaseTriggerAt30(w, c, i, in) ==
  IF w.st.enemies[i].phase = 1 /\ w.st.enemies[i].hp * 10 < w.st.enemies[i].maxHp * 3
  THEN PhaseSetup(w, i, in) ELSE w

(* lines 893-928: the phase-2 trigger and its setup *)
PhaseTrigger(w, c, i, in) ==
  IF w.st.enemies[i].phase = 1 /\ w.st.enemies[i].hp * 10 < w.st.enemies[i].maxHp * 4
  THEN PhaseSetup(w, i, in) ELSE w

(* number of projectiles of one boss volley (lines 1181-1480) *)
PatternCount(p) == IF p = 0 THEN 6 ELSE IF p = 1 THEN 3 ELSE 1

Volley(e, frame, pair) ==
  LET standardPhase == (frame \div 600) % 3
      currentPhase == IF e.type = "boss_clone" THEN (frame \div 300) % 2 ELSE standardPhase
  IN CASE e.variant = "somniomancer" ->
            IF currentPhase = 0 THEN 13 ELSE IF currentPhase = 1 THEN 0 ELSE 6
       [] e.variant = "alpha" ->
            IF e.phase = 2 THEN PatternCount(pair[1]) + PatternCount(pair[2])
            ELSE PatternCount(standardPhase)
       [] e.variant = "delta" ->
            IF currentPhase = 0 THEN (IF frame % 3 = 0 THEN 1 ELSE 0) ELSE 2
       [] OTHER -> 1

BossFireRate(c, e, frame) ==
  LET base == IF e.variant = "somniomancer" /\ e.type = "boss_clone" THEN 40
              ELSE IF e.variant = "alptraum" THEN ALP_FIRE_RATE
              ELSE FireRate(c.difficulty)
      currentPhase == IF e.type = "boss_clone" THEN (frame \div 300) % 2 ELSE (frame \div 600) % 3
  IN IF e.variant = "somniomancer" /\ currentPhase = 2 THEN base \div 2
     ELSE IF e.variant = "revenant" /\ currentPhase = 1 THEN (base * 16) \div 10
     ELSE base

Emit(w, i, n, damage) ==
  IF n > 0
  THEN [PushBullets(w, Copies(n, EnemyBullet(damage, w.st.enemies[i].id)))
          EXCEPT !.log.bossEmits = @ \cup {w.st.enemies[i].id}]
  ELSE w

(* lines 998-1016: the generic summon of two mobs *)
Summon(w, c, i, in) ==
  LET e == w.st.enemies[i]
      summonInterval == Max(180, SUMMON_PERIOD - 120 - ((w.st.stage - 2) * 120))
      minion == NewEnemy(0, in.mob, SUMMON_HP, 0)
  IN IF e.type = "boss" /\ (w.st.stage > 1 \/ c.practice # "none")
        /\ e.variant \notin {"revenant", "alptraum"}
        /\ w.st.frame % summonInterval = 0
     THEN [PushEnemy(PushEnemy(w, [minion EXCEPT !.shotTimer = in.seed]),
                     [minion EXCEPT !.shotTimer = in.seed])
             EXCEPT !.log.bossEmits = @ \cup {e.id}]
     ELSE w

(* lines 1105-1114 and 1131-1147: the absorbing shield of theta (up for at *)
(* most 1200 ticks, back after 480, 8% of maxHp) and of alptraum (900,     *)
(* 600, 15%)                                                               *)
ShieldCycle(e) ==
  LET isTheta == e.variant = "theta"
      timer == e.shieldTimer + 1
  IN IF e.shieldActive
     THEN IF timer > (IF isTheta THEN 1200 ELSE 900) \/ e.shieldHp <= 0
          THEN [e EXCEPT !.shieldActive = FALSE, !.shieldTimer = 0]
          ELSE [e EXCEPT !.shieldTimer = timer]
     ELSE IF timer > (IF isTheta THEN 480 ELSE 600)
          THEN [e EXCEPT !.shieldActive = TRUE, !.shieldTimer = 0,
                         !.shieldHp = Share(e.maxHp, IF isTheta THEN 80 ELSE 150)]
          ELSE [e EXCEPT !.shieldTimer = timer]

OracleCount(w, variant) ==
  Cardinality({k \in 1..NumEnemies(w) :
                 w.st.enemies[k].type = "oracle_minion" /\ w.st.enemies[k].variant = variant})

(* the loop without its caps *)
RECURSIVE OracleSpawnUncapped(_, _, _, _)
OracleSpawnUncapped(w, i, m, in) ==
  IF m > 3 THEN w
  ELSE OracleSpawnUncapped(PushKin(w, OracleRecord(w.st.enemies[i], in.orbit[m], in.seed)),
                           i, m + 1, in)

(* the loop of lines 1120-1127, from its round m *)
RECURSIVE OracleSpawn(_, _, _, _)
OracleSpawn(w, i, m, in) ==
  LET orbiting == OracleCount(w, "alpha")
      crossing == OracleCount(w, "beta")
      isOrbit == IF orbiting >= 13 THEN FALSE ELSE IF crossing >= 7 THEN TRUE ELSE in.orbit[m]
  IN IF m > 3 \/ (orbiting >= 13 /\ crossing >= 7) THEN w
     ELSE OracleSpawn(PushKin(w, OracleRecord(w.st.enemies[i], isOrbit, in.seed)), i, m + 1, in)

(* lines 1115-1128: a theta boss pays 1% of maxHp (0.5% in phase 2) for    *)
(* three minions parented to it                                            *)
ThetaSpawn(w, i, in) ==
  LET e == w.st.enemies[i]
  IN IF w.st.frame % ORACLE_SPAWN_PERIOD = 0 /\ e.hp * 20 > e.maxHp
     THEN OracleSpawn([w EXCEPT !.st.enemies[i].hp =
                                   @ - Share(e.maxHp, IF e.phase = 2 THEN 5 ELSE 10),
                                !.log.bossEmits = @ \cup {e.id}],
                      i, 1, in)
     ELSE w

Members(w, variants) ==
  {k \in 1..NumEnemies(w) :
     /\ w.st.enemies[k].type = "alp_mini_boss"
     /\ w.st.enemies[k].variant \in variants
     /\ ~w.st.enemies[k].dead}

(* lines 1262-1283: the running ultimate counts down and ends *)
HoldUltimate(w, i) ==
  LET e == w.st.enemies[i]
      trinityMembers == Members(w, {"alpha", "beta", "gamma"})
      duoMembers == Members(w, {"delta", "theta"})
      duoDrones == {k \in 1..NumEnemies(w) :
                      /\ w.st.enemies[k].type = "seraph_drone"
                      /\ \E d \in duoMembers : w.st.enemies[d].id = w.st.enemies[k].parentId}
  IN IF e.trinityActive
     THEN LET counted == [w EXCEPT !.st.enemies[i].trinityTimer = @ - 1,
                                   !.log.held = @ \cup {"trinity"}]
          IN IF e.trinityTimer - 1 <= 0 \/ trinityMembers = {}
             THEN MarkAllDead([counted EXCEPT !.st.enemies[i].trinityActive = FALSE],
                              trinityMembers)
             ELSE counted
     ELSE IF e.duoActive
     THEN LET counted == [w EXCEPT !.st.enemies[i].duoTimer = @ - 1,
                                   !.log.held = @ \cup {"duo"}]
          IN IF e.duoTimer - 1 <= 0 \/ duoMembers = {}
             THEN MarkAllDead([counted EXCEPT !.st.enemies[i].duoActive = FALSE],
                              duoMembers \cup duoDrones)
             ELSE counted
     ELSE w

(* lines 1294-1327: reflector rain *)
ReflectorRain(w, i) ==
  LET e == w.st.enemies[i]
      frame == w.st.frame
      currentReflectors == Cardinality({k \in 1..NumEnemies(w) :
                                          w.st.enemies[k].type = "alp_reflector"})
      summoned == IF frame % 5 = 0 /\ e.summonBatchCount < 30 /\ currentReflectors < 30
                  THEN PushKin([w EXCEPT !.st.enemies[i].summonBatchCount = @ + 1],
                               ReflectorRecord)
                  ELSE w
      rained == IF frame % 5 = 0 THEN Emit(summoned, i, 3, 15) ELSE summoned
  IN IF frame % 600 = 599 THEN [rained EXCEPT !.st.enemies[i].summonBatchCount = 0]
     ELSE rained

(* lines 1329-1359 and 1361-1400: an ultimate is entered for 15% of maxHp  *)
(* when the boss can pay; a trinity that cannot be paid sets a local       *)
(* variable and emits nothing, a duo that cannot be paid fires one         *)
(* projectile on the frames divisible by 5                                 *)
EnterUltimate(w, i, kind) ==
  LET e == w.st.enemies[i]
      cost == Share(e.maxHp, 150)
      minis == IF kind = "trinity" THEN <<"alpha", "beta", "gamma">> ELSE <<"delta", "theta">>
      entry == [boss |-> e.id, kind |-> kind, cost |-> cost,
                trinityActive |-> e.trinityActive, duoActive |-> e.duoActive]
      paid == [w EXCEPT !.st.enemies[i].hp = @ - cost,
                        !.st.enemies[i].trinityActive = IF kind = "trinity" THEN TRUE ELSE @,
                        !.st.enemies[i].trinityTimer = IF kind = "trinity" THEN ULTIMATE_TICKS ELSE @,
                        !.st.enemies[i].duoActive = IF kind = "duo" THEN TRUE ELSE @,
                        !.st.enemies[i].duoTimer = IF kind = "duo" THEN ULTIMATE_TICKS ELSE @,
                        !.log.ultimates = Append(@, entry)]
      before == Len(w.st.bullets)
      fallen == IF kind = "duo" /\ w.st.frame % 5 = 0 THEN Emit(w, i, 1, 15) ELSE w
  IN IF (kind = "trinity" /\ e.trinityActive) \/ (kind = "duo" /\ e.duoActive) THEN w
     ELSE IF e.hp > cost
     THEN PushKins(paid, [k \in 1..Len(minis) |-> MiniRecord(e, minis[k])])
     ELSE [fallen EXCEPT !.log.fallbacks =
                           Append(@, [kind |-> kind, hp |-> e.hp, maxHp |-> e.maxHp,
                                      emitted |-> Len(fallen.st.bullets) - before,
                                      room |-> before < MaxBullets])]

(* lines 1285-1400: the pattern selector *)
SelectAttack(w, i, in) ==
  IF in.pattern = 0 THEN ReflectorRain(w, i)
  ELSE IF in.pattern = 1 THEN EnterUltimate(w, i, "trinity")
  ELSE EnterUltimate(w, i, "duo")

(* the attack of alptraum without the returns of lines 1270 and 1282 *)
AlptraumAttackFallsThrough(w, i, in) ==
  SelectAttack(HoldUltimate(w, i), i, in)

(* lines 1249-1400: the attack of alptraum, once its shotTimer passed the  *)
(* fire rate                                                               *)
AlptraumAttack(w, i, in) ==
  LET calmed == IF ~w.st.bossActive
                THEN [w EXCEPT !.st.enemies[i].trinityActive = FALSE,
                               !.st.enemies[i].duoActive = FALSE]
                ELSE w
      e == calmed.st.enemies[i]
  IN IF e.trinityActive \/ e.duoActive THEN HoldUltimate(calmed, i)
     ELSE SelectAttack(calmed, i, in)

(* lines 1213-1248: the volley of revenant is a shotgun of five, one mine,  *)
(* or, on a frame that 5 divides, one drop of rain; the rain's burst at    *)
(* the wall and the wall effects of phase 2 are not modelled               *)
RevenantAttack(w, i, currentPhase) ==
  IF currentPhase = 0 THEN Emit(w, i, 5, 20)
  ELSE IF currentPhase = 1
  THEN [PushBullet(w, MineRecord(w.st.enemies[i].id))
          EXCEPT !.log.bossEmits = @ \cup {w.st.enemies[i].id}]
  ELSE Emit(w, i, IF w.st.frame % 5 = 0 THEN 1 ELSE 0, 15)

(* lines 1150-1480: the attack logic of a fighting boss or clone *)
Attack(w, c, i, in) ==
  LET e == w.st.enemies[i]
      frame == w.st.frame
      currentPhase == IF e.type = "boss_clone" THEN (frame \div 300) % 2 ELSE (frame \div 600) % 3
      rain == IF e.variant = "somniomancer" /\ currentPhase = 1 /\ frame % 20 = 0
              THEN Emit(w, i, 1, 25) ELSE w
  IN IF e.shotTimer > BossFireRate(c, e, frame)
     THEN IF e.variant = "alptraum"
          THEN AlptraumAttack([rain EXCEPT !.st.enemies[i].shotTimer = 0], i, in)
          ELSE IF e.variant = "revenant"
          THEN RevenantAttack([rain EXCEPT !.st.enemies[i].shotTimer = 0], i, currentPhase)
          ELSE Emit([rain EXCEPT !.st.enemies[i].shotTimer = 0], i,
                    Volley(e, frame, in.pair), 15)
     ELSE rain

(* lines 972-1480 for a boss or a boss clone *)
BossBehave(w, c, i, in) ==
  LET e == w.st.enemies[i]
      summoned == Summon(w, c, i, in)
      spawned == IF e.type = "boss" /\ e.variant = "theta"
                 THEN ThetaSpawn([summoned EXCEPT !.st.enemies[i] = ShieldCycle(@)], i, in)
                 ELSE IF e.type = "boss" /\ e.variant = "alptraum"
                 THEN [summoned EXCEPT !.st.enemies[i] = ShieldCycle(@)]
                 ELSE IF e.type = "boss" /\ e.variant = "revenant" /\ w.st.frame % 60 = 0
                 THEN PushKin(summoned, NewEnemy(0, "kamikaze", 40, 100))
                 ELSE summoned
  IN IF e.state = "entering"
     THEN [w EXCEPT !.st.enemies[i].approach = @ - 1,
                    !.st.enemies[i].state = IF e.approach - 1 <= 0 THEN "fighting" ELSE @]
     ELSE Attack(spawned, c, i, in)

(* line 1604: a kamikaze within reach of the player *)
KamikazeStrike(w, c, i, in) ==
  LET blasted == createExplosion(w, c, {i} \cup BlastVictims(w, in), KAMIKAZE_DAMAGE, "kamikaze")
      p == blasted.st.player
      struck ==
        IF p.invulnerableTime <= 0
        THEN IF p.shield > 0
             THEN [blasted EXCEPT !.st.player.shield = @ - KAMIKAZE_DAMAGE,
                                  !.st.player.invulnerableTime = SHIELD_INVULN,
                                  !.log.hurtAt = @ \cup {p.invulnerableTime}]
             ELSE LET hurt == [blasted EXCEPT !.st.player.hp = @ - KAMIKAZE_DAMAGE,
                                              !.st.player.framesSinceLastHit = 0,
                                              !.st.player.invulnerableTime = HIT_INVULN,
                                              !.log.hurtAt = @ \cup {p.invulnerableTime}]
                  IN IF hurt.st.player.hp <= 0 THEN PlayerDown(hurt, c, in) ELSE hurt
        ELSE blasted
  IN MarkDead(struck, i)

(* state.enemies.find(p => p.id === e.parentId) and the test of its result *)
ParentAlive(w, i) ==
  \E k \in 1..NumEnemies(w) :
     w.st.enemies[k].id = w.st.enemies[i].parentId /\ ~w.st.enemies[k].dead

(* the follower at index i found its parent dead or gone *)
Orphaned(w, i) == [w EXCEPT !.log.orphans = @ \cup {w.st.enemies[i].id}]

(* lines 825-890: a ghost drone leaves when no boss is active, and         *)
(* otherwise waits, takes position, charges for 60 ticks and fires         *)
GhostBehave(w, i, in) ==
  LET e == w.st.enemies[i]
  IN IF ~w.st.bossActive
     THEN IF i \in Sel(in.fled, NumEnemies(w)) THEN MarkDead(w, i) ELSE w
     ELSE CASE e.ghostState = "idle" ->
                 IF e.ghostTimer > 0 THEN [w EXCEPT !.st.enemies[i].ghostTimer = @ - 1]
                 ELSE [w EXCEPT !.st.enemies[i].ghostState = "positioning"]
            [] e.ghostState = "positioning" ->
                 IF in.arrived
                 THEN [w EXCEPT !.st.enemies[i].ghostState = "charging",
                                !.st.enemies[i].ghostTimer = 60]
                 ELSE w
            [] OTHER ->
                 IF e.ghostTimer > 0 THEN [w EXCEPT !.st.enemies[i].ghostTimer = @ - 1]
                 ELSE PushBullets([w EXCEPT !.st.enemies[i].ghostState = "idle",
                                            !.st.enemies[i].ghostTimer = 300 + 3 * in.seed],
                                  IF e.ghostType = "gorgon"
                                  THEN Copies(1, EnemyBullet(20, e.id))
                                  ELSE Copies(3, EnemyBullet(15, e.id)))

(* lines 949-962: a mini-boss orbits its parent, or marks itself dead *)
Orbit(w, i) ==
  IF w.st.enemies[i].parentId # 0 /\ ~ParentAlive(w, i)
  THEN MarkDead(Orphaned(w, i), i) ELSE w

(* lines 1482-1557: a mini-boss; delta keeps up to four drones *)
MiniBehave(w, i, in) ==
  LET e == w.st.enemies[i]
      children == Cardinality({k \in 1..NumEnemies(w) :
                                 /\ w.st.enemies[k].parentId = e.id
                                 /\ w.st.enemies[k].type = "seraph_drone"})
      spawned == IF e.variant = "delta" /\ children < 4 /\ w.st.frame % 60 = 0
                 THEN PushKin(w, SeraphRecord(50, 0, e.id, 0)) ELSE w
      threshold == CASE e.variant \in {"alpha", "theta"} -> 45
                     [] e.variant = "gamma" -> 60
                     [] e.variant = "beta" -> 90
                     [] OTHER -> 30
      shots == CASE e.variant = "alpha" -> 12
                 [] e.variant \in {"beta", "gamma"} -> 4
                 [] e.variant = "theta" -> IF in.coin THEN 2 ELSE 1
                 [] OTHER -> 1
  IN IF e.shotTimer > threshold
     THEN PushBullets([spawned EXCEPT !.st.enemies[i].shotTimer = 0],
                      Copies(shots, EnemyBullet(5, e.id)))
     ELSE spawned

(* lines 1569-1582: a drone orbits its parent and fires, or marks itself   *)
(* dead                                                                    *)
SeraphBehave(w, i) ==
  LET e == w.st.enemies[i]
      parent == CHOOSE k \in 1..NumEnemies(w) : w.st.enemies[k].id = e.parentId
      fireThreshold == IF w.st.enemies[parent].phase = 2 THEN 60 ELSE 120
  IN IF e.parentId = 0 THEN w
     ELSE IF ParentAlive(w, i)
     THEN IF e.shotTimer > fireThreshold
          THEN PushBullets([w EXCEPT !.st.enemies[i].shotTimer = 0], <<EnemyBullet(8, e.id)>>)
          ELSE w
     ELSE MarkDead(Orphaned(w, i), i)

(* lines 1583-1593: a minion of the orbiting kind drifts away when its     *)
(* parent is dead or gone, one of the crossing kind never looks at its     *)
(* parent; both keep firing                                                *)
OracleBehave(w, i) ==
  LET e == w.st.enemies[i]
      found == IF ParentAlive(w, i) THEN w ELSE Orphaned(w, i)
  IN IF e.shotTimer > (IF e.variant = "alpha" THEN 120 ELSE 60)
     THEN PushBullets([found EXCEPT !.st.enemies[i].shotTimer = 0],
                      <<EnemyBullet(IF e.variant = "alpha" THEN 8 ELSE 10, e.id)>>)
     ELSE found

(* lines 969 and 1559-1567: the reflector counts patternTimer twice a tick *)
(* and flips its reflection past 300                                       *)
ReflectorBehave(w, i) ==
  IF w.st.enemies[i].patternTimer + 2 > 300
  THEN [w EXCEPT !.st.enemies[i].patternTimer = 0,
                 !.st.enemies[i].isReflecting = ~@]
  ELSE [w EXCEPT !.st.enemies[i].patternTimer = @ + 2]

(* the standard mobs (lines 1595-1610) and the followers (lines 1482-1593) *)
MobBehave(w, c, i, in) ==
  LET e == w.st.enemies[i]
  IN CASE e.type = "drone" ->
            IF e.shotTimer > MOB_SHOT_PERIOD
            THEN PushBullets([w EXCEPT !.st.enemies[i].shotTimer = 0],
                             <<EnemyBullet(10, e.id)>>)
            ELSE w
       [] e.type = "kamikaze" ->
            IF i \in Sel(in.near, NumEnemies(w)) THEN KamikazeStrike(w, c, i, in) ELSE w
       [] e.type = "alp_mini_boss" -> MiniBehave(w, i, in)
       [] e.type = "alp_reflector" -> ReflectorBehave(w, i)
       [] e.type = "seraph_drone" -> SeraphBehave(w, i)
       [] e.type = "oracle_minion" -> OracleBehave(w, i)
       [] OTHER -> w

(* lines 1561, 1597 and 1604: the step of a mob along its path is          *)
(* multiplied by state.timeScale; line 975: the approach of a boss is not. *)
(* The log keeps the steps taken while the time scale is reduced.          *)
Move(w, i) ==
  LET e == w.st.enemies[i]
  IN IF w.st.timeScale = FIFTHS THEN w
     ELSE IF e.type \in {"drone", "kamikaze", "alp_reflector"}
     THEN [w EXCEPT !.log.moves = @ \cup {[id |-> e.id, owner |-> "enemy",
                                           scale |-> w.st.timeScale]}]
     ELSE IF e.type = "boss" /\ e.state = "entering"
     THEN [w EXCEPT !.log.moves = @ \cup {[id |-> e.id, owner |-> "enemy", scale |-> FIFTHS]}]
     ELSE w

(* lines 1613-1618; a follower that orbits its living parent stays inside  *)
CheckBounds(w, i, in) ==
  IF w.st.enemies[i].type \notin {"boss", "boss_clone", "drone"}
     /\ i \in Sel(in.fled, NumEnemies(w))
     /\ ~(w.st.enemies[i].type \in {"alp_mini_boss", "seraph_drone"} /\ ParentAlive(w, i))
     /\ ~(w.st.enemies[i].type = "oracle_minion" /\ w.st.enemies[i].variant = "alpha"
          /\ ParentAlive(w, i))
  THEN MarkDead(w, i) ELSE w

TransitionWindow(w, i) ==
  [w EXCEPT !.st.enemies[i].phaseTransitionTimer = @ - 1]

(* the behaviour without the early return of the transition window *)
BehaveNoReturn(w, c, i, in) ==
  LET timed == [w EXCEPT !.st.enemies[i] = ShieldTimer(@)]
      triggered == IF timed.st.enemies[i].type = "boss" THEN PhaseTrigger(timed, c, i, in)
                   ELSE timed
      e == triggered.st.enemies[i]
      passed == IF e.type = "boss" /\ e.phaseTransitionTimer > 0
                THEN TransitionWindow(triggered, i) ELSE triggered
      counted == IF e.type = "alp_mini_boss" THEN Orbit(passed, i) ELSE passed
  IN IF e.isGhost /\ e.type = "drone" THEN GhostBehave(timed, i, in)
     ELSE IF e.frozenTimer > 0
     THEN [counted EXCEPT !.st.enemies[i].frozenTimer = @ - 1]
     ELSE LET ticked == Move([counted EXCEPT !.st.enemies[i].shotTimer = @ + 1], i)
          IN IF e.type \in {"boss", "boss_clone"}
             THEN BossBehave(ticked, c, i, in)
             ELSE CheckBounds(MobBehave(ticked, c, i, in), i, in)

Behave(w, c, i, in) ==
  LET timed == [w EXCEPT !.st.enemies[i] = ShieldTimer(@)]
      triggered == IF timed.st.enemies[i].type = "boss" THEN PhaseTrigger(timed, c, i, in)
                   ELSE timed
      e == triggered.st.enemies[i]
      counted == IF e.type = "alp_mini_boss" THEN Orbit(triggered, i) ELSE triggered
  IN IF e.isGhost /\ e.type = "drone" THEN GhostBehave(timed, i, in)
     ELSE IF e.type = "boss" /\ e.phaseTransitionTimer > 0
     THEN TransitionWindow(triggered, i)
     ELSE IF e.frozenTimer > 0
     THEN [counted EXCEPT !.st.enemies[i].frozenTimer = @ - 1]
     ELSE LET ticked == Move([counted EXCEPT !.st.enemies[i].shotTimer = @ + 1], i)
          IN IF e.type \in {"boss", "boss_clone"}
             THEN BossBehave(ticked, c, i, in)
             ELSE CheckBounds(MobBehave(ticked, c, i, in), i, in)

RECURSIVE BehaveFrom(_, _, _, _, _)
BehaveOn(w, c, i, n, in) == IF w.st.frame >= 0 THEN BehaveFrom(w, c, i, n, in) ELSE w

BehaveFrom(w, c, i, n, in) ==
  IF i > n THEN w
  ELSE BehaveOn(Behave(w, c, i, in), c, i + 1, n, in)

(* forEach visits the elements present when the loop starts *)
Enemies(w, c, in) == BehaveFrom(w, c, 1, NumEnemies(w), in)

(***************************************************************************)
(* The projectile loop (lines 1621-1828): a projectile advances by its     *)
(* velocity, times state.timeScale if the enemy owns it (lines 1791-1794), *)
(* and is marked dead outside the arena (line 1826).  The body of the loop *)
(* has no test of b.dead: late holds the projectiles that were already     *)
(* marked dead when the loop advanced them.                                *)
(***************************************************************************)
(* lines 1659-1680: a mine at hp <= 0 bursts into 7 shards, a mine whose    *)
(* timer has passed 480 or that the player is within 50 of into 8; rings   *)
(* holds the mine and the size of every ring of the step                   *)
Ring(w, k, shards) ==
  [PushBullets([w EXCEPT !.st.bullets[k].dead = TRUE], Copies(shards, EnemyBullet(15, Null)))
     EXCEPT !.log.rings = @ \cup {[id |-> w.st.bullets[k].id, shards |-> shards]}]

MineLogic(w, k, in) ==
  LET b == w.st.bullets[k]
      shot == IF b.hp <= 0 THEN Ring(w, k, 7) ELSE w
  IN IF b.timer > MINE_FUSE \/ k \in Sel(in.tripped, Len(w.st.bullets))
     THEN Ring(shot, k, 8) ELSE shot

(* line 1622 and the mine logic for the projectiles that were in the list  *)
(* when the loop began                                                     *)
RECURSIVE Mines(_, _, _, _)
Mines(w, k, n, in) ==
  IF k > n THEN w
  ELSE IF w.st.bullets[k].isMine
  THEN Mines(MineLogic([w EXCEPT !.st.bullets[k].timer = @ + 1], k, in), k + 1, n, in)
  ELSE Mines(w, k + 1, n, in)

BulletsMoved(w, in) ==
  LET gone == Sel(in.gone, Len(w.st.bullets))
      steps == {[id |-> w.st.bullets[k].id, owner |-> w.st.bullets[k].owner,
                 scale |-> IF w.st.bullets[k].owner = "enemy" THEN w.st.timeScale ELSE FIFTHS] :
                  k \in DOMAIN w.st.bullets}
  IN [w EXCEPT !.st.bullets = [k \in DOMAIN @ |-> IF k \in gone THEN [@[k] EXCEPT !.dead = TRUE]
                                                  ELSE @[k]],
               !.log.moves = IF w.st.timeScale = FIFTHS THEN @ ELSE @ \cup steps,
               !.log.late = {w.st.bullets[k].id : k \in {j \in DOMAIN w.st.bullets :
                                                           w.st.bullets[j].dead}}]

Bullets(w, in) ==
  LET moved == BulletsMoved(w, in)
  IN IF moved.st.frame >= 0 THEN Mines(moved, 1, Len(w.st.bullets), in) ELSE moved

(***************************************************************************)
(* The collision resolver (lines 1830-1928).                               *)
(***************************************************************************)
MaxStages(d) == IF IsBossRush(d) THEN MAX_STAGES_RUSH ELSE MAX_STAGES

Fragments(c, base) == base * LootMult(c.difficulty) * BossRushMult(c.difficulty)



(* line 1905 *)
Cascade(w) ==
  MarkAllDead(w, {k \in AllEnemies(w) :
                    \/ w.st.enemies[k].type \in {"boss_clone", "alp_mini_boss", "alp_reflector",
                                                  "seraph_drone"}
                    \/ w.st.enemies[k].isGhost})

(* the boss part of the payout with the stage limit tested before the     *)
(* stage is advanced                                                       *)
BossKilledTestsFirst(w, c) ==
  LET cleaned == Cascade([w EXCEPT !.st.stats.bossKills = @ + 1,
                                   !.st.bossActive = FALSE, !.st.boss = NoBoss])
  IN IF c.practice # "none"
     THEN EmitPracticeWin([cleaned EXCEPT !.st.isGameOver = TRUE])
     ELSE LET staged == [cleaned EXCEPT !.st.waveDelay = WAVE_DELAY, !.st.stage = @ + 1,
                                        !.st.stageTimer = 0,
                                        !.st.score = @ + STAGE_CLEAR_SCORE]
          IN IF cleaned.st.stage >= MaxStages(c.difficulty) /\ c.difficulty # "INFINITY"
             THEN EmitGameOver(staged, TRUE, staged.st.dataFragments)
             ELSE staged

(* the boss part of the payout without the reset of bossActive and boss *)
BossKilledKeepsFlag(w, c) ==
  LET cleaned == Cascade([w EXCEPT !.st.stats.bossKills = @ + 1])
  IN IF c.practice # "none"
     THEN EmitPracticeWin([cleaned EXCEPT !.st.isGameOver = TRUE])
     ELSE LET staged == [cleaned EXCEPT !.st.waveDelay = WAVE_DELAY, !.st.stage = @ + 1,
                                        !.st.stageTimer = 0,
                                        !.st.score = @ + STAGE_CLEAR_SCORE]
          IN IF staged.st.stage >= MaxStages(c.difficulty) /\ c.difficulty # "INFINITY"
             THEN EmitGameOver(staged, TRUE, staged.st.dataFragments)
             ELSE staged

(* lines 1900-1910: the boss part of the death payout *)
BossKilled(w, c) ==
  LET cleaned == Cascade([w EXCEPT !.st.stats.bossKills = @ + 1,
                                   !.st.bossActive = FALSE, !.st.boss = NoBoss])
  IN IF c.practice # "none"
     THEN EmitPracticeWin([cleaned EXCEPT !.st.isGameOver = TRUE])
     ELSE LET staged == [cleaned EXCEPT !.st.waveDelay = WAVE_DELAY, !.st.stage = @ + 1,
                                        !.st.stageTimer = 0,
                                        !.st.score = @ + STAGE_CLEAR_SCORE]
          IN IF staged.st.stage >= MaxStages(c.difficulty) /\ c.difficulty # "INFINITY"
             THEN EmitGameOver(staged, TRUE, staged.st.dataFragments)
             ELSE staged

(* the payout without the marking of the enemy as dead *)
DeathPayoutKeepsAlive(w, c, ei, in) ==
  LET e == w.st.enemies[ei]
  IN IF e.hp <= 0 /\ ~e.dead
     THEN LET paid == [w EXCEPT !.st.score = @ + e.scoreValue,
                                !.st.stats.kills = @ + 1,
                                !.st.dataFragments = @ + Fragments(c, in.loot),
                                !.log.payouts = Append(@, e.id),
                                !.log.paid = Append(@, e.id)]
          IN IF e.type = "boss" THEN BossKilled(paid, c) ELSE paid
     ELSE w

(* lines 1892-1911 *)
DeathPayout(w, c, ei, in) ==
  LET e == w.st.enemies[ei]
  IN IF e.hp <= 0 /\ ~e.dead
     THEN LET paid == [MarkDead(w, ei) EXCEPT !.st.score = @ + e.scoreValue,
                                              !.st.stats.kills = @ + 1,
                                              !.st.dataFragments = @ + Fragments(c, in.loot),
                                              !.log.payouts = Append(@, e.id),
                                              !.log.paid = Append(@, e.id)]
          IN IF e.type = "boss" THEN BossKilled(paid, c) ELSE paid
     ELSE w

(* line 1890: the other live enemies within the chain range of the enemy   *)
(* at index ei, and the one state.enemies.find returns (0 when none)       *)
InChainRange(w, ei, in) ==
  {k \in Sel(in.reach, NumEnemies(w)) :
     w.st.enemies[k].id # w.st.enemies[ei].id /\ ~w.st.enemies[k].dead}

NextTarget(w, ei, in) ==
  LET near == InChainRange(w, ei, in)
  IN IF near = {} THEN 0 ELSE CHOOSE k \in near : \A j \in near : k <= j

(* the chain branch with the projectile put at the next target *)
ChainLandsOnTarget(w, bi, ei, in) ==
  LET b == w.st.bullets[bi]
      e == w.st.enemies[ei]
      nextTarget == NextTarget(w, ei, in)
      seen == [bullet |-> b.id, hit |-> e.id, before |-> b.chainCount,
               near |-> {w.st.enemies[k].id : k \in InChainRange(w, ei, in)},
               listed |-> b.hitList, piercing |-> b.piercing,
               target |-> IF nextTarget = 0 THEN 0 ELSE w.st.enemies[nextTarget].id,
               ghost |-> nextTarget # 0 /\ w.st.enemies[nextTarget].isGhost]
      jumped == [w EXCEPT !.st.bullets[bi].chainCount = @ - 1,
                          !.st.bullets[bi].hitList = @ \cup {e.id},
                          !.log.chains = Append(@, seen)]
  IN IF nextTarget # 0
     THEN [jumped EXCEPT !.st.bullets[bi].aim = w.st.enemies[nextTarget].id,
                         !.st.bullets[bi].pos = w.st.enemies[nextTarget].id]
     ELSE [jumped EXCEPT !.st.bullets[bi].dead = TRUE]

(* line 1890, chain branch: the projectile takes the position of the enemy *)
(* it hit and the direction of the next target, or dies                    *)
Chain(w, bi, ei, in) ==
  LET b == w.st.bullets[bi]
      e == w.st.enemies[ei]
      nextTarget == NextTarget(w, ei, in)
      seen == [bullet |-> b.id, hit |-> e.id, before |-> b.chainCount,
               near |-> {w.st.enemies[k].id : k \in InChainRange(w, ei, in)},
               listed |-> b.hitList, piercing |-> b.piercing,
               target |-> IF nextTarget = 0 THEN 0 ELSE w.st.enemies[nextTarget].id,
               ghost |-> nextTarget # 0 /\ w.st.enemies[nextTarget].isGhost]
      jumped == [w EXCEPT !.st.bullets[bi].chainCount = @ - 1,
                          !.st.bullets[bi].hitList = @ \cup {e.id},
                          !.log.chains = Append(@, seen)]
  IN IF nextTarget # 0
     THEN [jumped EXCEPT !.st.bullets[bi].aim = w.st.enemies[nextTarget].id,
                         !.st.bullets[bi].pos = e.id]
     ELSE [jumped EXCEPT !.st.bullets[bi].dead = TRUE]

(* line 1890: what the hit does to the projectile *)
OnHit(w, c, bi, ei, in) ==
  LET b == w.st.bullets[bi]
      e == w.st.enemies[ei]
  IN IF b.splashRadius > 0
     THEN createExplosion([w EXCEPT !.st.bullets[bi].dead = TRUE,
                                    !.log.dealt = @ \cup {[kind |-> "splash", emitted |-> b.damage,
                                                           applied |-> ExplosionDamage(c, b.damage),
                                                           reduction |-> 0]}], c,
                          {ei} \cup BlastVictims(w, in), b.damage, "splash")
     ELSE IF b.chainCount > 0
     THEN Chain(w, bi, ei, in)
     ELSE IF b.piercing
     THEN IF b.weaponId = "GAUSS_CANNON"
          THEN [w EXCEPT !.st.bullets[bi].hitList = @ \cup {e.id},
                         !.st.bullets[bi].chainCount = @ - 1,
                         !.st.bullets[bi].dead = b.chainCount - 1 <= 0]
          ELSE [w EXCEPT !.st.bullets[bi].hitList = @ \cup {e.id}]
     ELSE [w EXCEPT !.st.bullets[bi].dead = b.weaponId # "ORBITING_ORBS"]

(* the resolver without the test of the hit-list *)
CollideNoHitList(w, c, bi, ei, in) ==
  LET b == w.st.bullets[bi]
      e == w.st.enemies[ei]
      overlap == ei \in Sel(in.target, NumEnemies(w))
  IN IF e.dead \/ b.dead THEN w
     ELSE IF e.isGhost THEN w
     ELSE IF ~overlap THEN w
     ELSE IF e.type = "alp_reflector" /\ e.isReflecting
     THEN PushBullet([w EXCEPT !.st.bullets[bi].dead = TRUE], EnemyBullet(10, e.id))
     ELSE IF e.type = "boss" /\ e.variant \in {"theta", "alptraum"}
             /\ e.shieldActive /\ e.shieldHp > 0
     THEN [w EXCEPT !.st.enemies[ei].shieldHp = @ - b.damage, !.st.bullets[bi].dead = TRUE]
     ELSE IF e.type = "boss_clone" THEN [w EXCEPT !.st.bullets[bi].dead = TRUE]
     ELSE LET finalDamage == (b.damage * (100 - e.dmgReduction)) \div 100
              damaged == [w EXCEPT !.st.enemies[ei].hp = @ - finalDamage,
                                   !.st.bullets[bi].struck = Append(@, e.id)]
          IN DeathPayout(OnHit(damaged, c, bi, ei, in), c, ei, in)

(* one projectile against one enemy after the test of the dead flags: the  *)
(* tests of lines 1835-1838, the reflector of lines 1841-1849, the         *)
(* absorbing shield of lines 1859-1867, the hit                            *)
Resolve(w, c, bi, ei, in) ==
  LET b == w.st.bullets[bi]
      e == w.st.enemies[ei]
      overlap == ei \in Sel(in.target, NumEnemies(w))
  IN IF e.id \in b.hitList
     THEN IF overlap THEN [w EXCEPT !.log.listSkips = @ \cup {<<b.id, e.id>>}] ELSE w
     ELSE IF e.isGhost THEN w
     ELSE IF ~overlap THEN w
     ELSE IF e.type = "alp_reflector" /\ e.isReflecting
     THEN PushBullet([w EXCEPT !.st.bullets[bi].dead = TRUE], EnemyBullet(10, e.id))
     ELSE IF e.type = "boss" /\ e.variant \in {"theta", "alptraum"}
             /\ e.shieldActive /\ e.shieldHp > 0
     THEN [w EXCEPT !.st.enemies[ei].shieldHp = @ - b.damage, !.st.bullets[bi].dead = TRUE]
     ELSE IF e.type = "boss_clone" THEN [w EXCEPT !.st.bullets[bi].dead = TRUE]
     ELSE LET finalDamage == (b.damage * (100 - e.dmgReduction)) \div 100
              damaged == [Posthumous(w, ei, finalDamage, "projectile")
                            EXCEPT !.log.dealt = @ \cup {[kind |-> "projectile",
                                                          emitted |-> b.damage,
                                                          applied |-> finalDamage,
                                                          reduction |-> e.dmgReduction]},
                                   !.st.enemies[ei].hp = @ - finalDamage,
                                   !.st.bullets[bi].struck = Append(@, e.id)]
          IN DeathPayout(OnHit(damaged, c, bi, ei, in), c, ei, in)

(* one projectile against one enemy (lines 1833-1912) *)
Collide(w, c, bi, ei, in) ==
  LET b == w.st.bullets[bi]
      e == w.st.enemies[ei]
      overlap == ei \in Sel(in.target, NumEnemies(w))
  IN IF e.dead \/ b.dead
     THEN IF overlap /\ ~b.dead THEN [w EXCEPT !.log.deadSkips = @ \cup {<<b.id, e.id>>}] ELSE w
     ELSE Resolve(w, c, bi, ei, in)

RECURSIVE CollideFrom(_, _, _, _, _)
CollideOn(w, c, bi, ei, in) == IF w.st.frame >= 0 THEN CollideFrom(w, c, bi, ei, in) ELSE w

CollideFrom(w, c, bi, ei, in) ==
  IF ei > NumEnemies(w) THEN w
  ELSE CollideOn(Collide(w, c, bi, ei, in), c, bi, ei + 1, in)

(* lines 1916-1926: a live player projectile dies on every live mine it    *)
(* overlaps, and takes its damage off the mine's hp unless that hp is 0    *)
RECURSIVE MineCheck(_, _, _, _)
MineCheck(w, bi, k, in) ==
  IF k > Len(w.st.bullets) THEN w
  ELSE LET mine == w.st.bullets[k]
           b == w.st.bullets[bi]
       IN IF mine.isMine /\ ~mine.dead /\ k \in Sel(in.mined, Len(w.st.bullets))
          THEN MineCheck([w EXCEPT !.st.bullets[bi].dead = TRUE,
                                   !.st.bullets[k].hp = IF @ # 0 THEN @ - b.damage ELSE @],
                         bi, k + 1, in)
          ELSE MineCheck(w, bi, k + 1, in)

RECURSIVE CollisionFrom(_, _, _, _)
MineChecked(w, bi, in) == IF w.st.bullets[bi].dead THEN w ELSE MineCheck(w, bi, 1, in)

CollisionOn(w, c, bi, in) == IF w.st.frame >= 0 THEN CollisionFrom(w, c, bi, in) ELSE w

CollisionFrom(w, c, bi, in) ==
  IF bi > Len(w.st.bullets) THEN w
  ELSE IF w.st.bullets[bi].owner = "player"
  THEN CollisionOn(MineChecked(CollideFrom(w, c, bi, 1, in), bi, in), c, bi + 1, in)
  ELSE CollisionFrom(w, c, bi + 1, in)

Collision(w, c, in) == CollisionFrom(w, c, 1, in)

(***************************************************************************)
(* Hits on the player (lines 1930-1979).                                   *)
(***************************************************************************)
(* the body of checkHit once the distance test has passed *)
checkHit(w, c, in) ==
  IF w.st.player.shield > 0
  THEN LET absorbed == [w EXCEPT !.st.player.shield = @ - HIT_DAMAGE,
                                  !.st.player.invulnerableTime = SHIELD_INVULN,
                                  !.log.hurtAt = @ \cup {w.st.player.invulnerableTime}]
       IN IF c.spellLevel >= 3
          THEN createExplosion(absorbed, c, BlastVictims(w, in), AEGIS_BLAST_DAMAGE, "aegis")
          ELSE absorbed
  ELSE LET hurt == [w EXCEPT !.st.player.hp = @ - HIT_DAMAGE,
                             !.st.player.framesSinceLastHit = 0,
                             !.log.hurtAt = @ \cup {w.st.player.invulnerableTime}]
       IN IF hurt.st.player.hp <= 0 THEN PlayerDown(hurt, c, in)
          ELSE [hurt EXCEPT !.st.player.invulnerableTime = HIT_INVULN]

(* the enemy projectiles overlapping the player *)
Striking(w, in) ==
  LET hostile == {k \in 1..Len(w.st.bullets) :
                    w.st.bullets[k].owner = "enemy" /\ ~w.st.bullets[k].dead}
  IN CASE in.struck = "all" -> hostile
       [] in.struck = "first" ->
            IF hostile = {} THEN {} ELSE {CHOOSE k \in hostile : \A j \in hostile : k <= j}
       [] OTHER -> {}

RECURSIVE BulletHits(_, _, _, _, _)
BulletHits(w, c, k, striking, in) ==
  IF k > Len(w.st.bullets) THEN w
  ELSE BulletHits(IF k \in striking
                  THEN [checkHit(w, c, in) EXCEPT !.st.bullets[k].dead = TRUE] ELSE w,
                  c, k + 1, striking, in)

(* lines 1973-1978: every enemy that is not a ghost is tested against the  *)
(* player; contacts holds the enemies that were marked dead when their     *)
(* contact hit the player                                                  *)
RECURSIVE ContactHits(_, _, _, _, _)
ContactHits(w, c, k, touching, in) ==
  IF k > NumEnemies(w) THEN w
  ELSE LET hit == IF k \in touching /\ ~w.st.enemies[k].isGhost
                  THEN [checkHit(w, c, in) EXCEPT !.log.contacts =
                          IF w.st.enemies[k].dead THEN @ \cup {w.st.enemies[k].id} ELSE @]
                  ELSE w
       IN IF hit.st.frame >= 0 THEN ContactHits(hit, c, k + 1, touching, in) ELSE hit

PlayerHits(w, c, in) ==
  IF w.st.player.invulnerableTime > 0
  THEN [w EXCEPT !.st.player.invulnerableTime = @ - 1]
  ELSE LET shot == BulletHits(w, c, 1, Striking(w, in), in)
       IN ContactHits(shot, c, 1, Sel(in.touch, NumEnemies(shot)), in)

(* lines 1981-1982 *)
Prune(w) ==
  [w EXCEPT !.st.bullets = SelectSeq(@, LAMBDA b : ~b.dead),
            !.st.enemies = SelectSeq(@, LAMBDA e : ~e.dead)]

(***************************************************************************)
(* update() (lines 567-1990), once the pause and game-over guards passed.  *)
(***************************************************************************)
WaveDelay(w) == IF w.st.waveDelay > 0 THEN [w EXCEPT !.st.waveDelay = @ - 1] ELSE w

(* lines 588-597: the buffs count down, then the time scale is chosen; the *)
(* scale is kept in fifths                                                 *)
Buffs(w) ==
  LET left == Max(0, w.st.player.activeBuffs.TIME_DILATOR - 1)
  IN [w EXCEPT !.st.player.activeBuffs.TIME_DILATOR = left,
               !.st.timeScale = IF left > 0 THEN 1 ELSE FIFTHS]

(* lines 620-622 *)
SpellKeys(w, c, keys) ==
  LET x == IF "KeyX" \in keys THEN activateSpell(w, c, 1) ELSE w
      y == IF "KeyC" \in keys THEN activateSpell(x, c, 2) ELSE x
  IN IF "KeyV" \in keys THEN activateSpell(y, c, 3) ELSE y

(* line 624 *)
Cooldowns(w) ==
  [w EXCEPT !.st.player.spellCooldowns = [k \in DOMAIN @ |-> Max(0, @[k] - 1)]]

Regen(w) ==
  LET p == [w.st.player EXCEPT !.framesSinceLastHit = @ + 1]
  IN [w EXCEPT !.st.player =
        IF p.framesSinceLastHit > REGEN_THRESHOLD /\ w.st.frame % 60 = 0 /\ p.hp < p.maxHp
        THEN [p EXCEPT !.hp = Min(p.maxHp, p.hp + 1)] ELSE p]

(* lines 614-616: the speed of the ship; the buff of OVERCLOCK, a spell     *)
(* that is not modelled, stays at 0                                        *)
Speed(keys) ==
  IF keys \cap {"ShiftLeft", "ShiftRight"} # {} THEN PLAYER_SPEED \div 2 ELSE PLAYER_SPEED

(* lines 634-657: the gravity of somniomancer is drawn every 1800 frames   *)
(* and becomes the velocity of the ship while its timer runs               *)
Gravity(w, in) ==
  LET held == {k \in 1..Len(w.st.enemies) : w.st.enemies[k].id = w.st.boss}
      still == [w EXCEPT !.st.player.vx = 0, !.st.player.vy = 0]
  IN IF w.st.bossActive /\ held # {}
     THEN LET i == CHOOSE k \in held : TRUE
              drawn == IF w.st.frame % GRAVITY_PERIOD = 0
                       THEN [w EXCEPT !.st.enemies[i].gravityDir = in.gravity,
                                      !.st.enemies[i].gravityTimer = GRAVITY_PERIOD]
                       ELSE w
              boss == drawn.st.enemies[i]
          IN IF boss.variant # "somniomancer" THEN still
             ELSE IF boss.gravityTimer > 0
             THEN [drawn EXCEPT !.st.enemies[i].gravityTimer = @ - 1,
                                !.st.player.vx = boss.gravityDir.x,
                                !.st.player.vy = boss.gravityDir.y]
             ELSE [drawn EXCEPT !.st.player.vx = 0, !.st.player.vy = 0]
     ELSE still

(* lines 660-664: each held direction moves the ship, stopped at the wall *)
Steer(p, keys) ==
  LET speed == Speed(keys)
      up == IF keys \cap {"ArrowUp", "KeyW"} # {}
            THEN [p EXCEPT !.y = Max(p.height, @ - speed)] ELSE p
      down == IF keys \cap {"ArrowDown", "KeyS"} # {}
              THEN [up EXCEPT !.y = Min(CANVAS_HEIGHT - p.height, @ + speed)] ELSE up
      left == IF keys \cap {"ArrowLeft", "KeyA"} # {}
              THEN [down EXCEPT !.x = Max(p.width, @ - speed)] ELSE down
  IN IF keys \cap {"ArrowRight", "KeyD"} # {}
     THEN [left EXCEPT !.x = Min(CANVAS_WIDTH - p.width, @ + speed)] ELSE left

(* lines 667-668 *)
Forces(p) == [p EXCEPT !.x = @ + p.vx, !.y = @ + p.vy]

Unbounded(p) == p

(* lines 671-672: the bounds check after the forces *)
Bounded(p) ==
  [p EXCEPT !.x = Max(p.width, Min(CANVAS_WIDTH - p.width, @)),
            !.y = Max(p.height, Min(CANVAS_HEIGHT - p.height, @))]

Movement(w, in) ==
  LET pulled == Gravity(w, in)
  IN [pulled EXCEPT !.st.player = Bounded(Forces(Steer(@, in.keys)))]

Simulate(w, c, in) ==
  LET prepared == Movement(Regen(Cooldowns(SpellKeys(WaveDelay(Buffs(w)), c, in.keys))), in)
      spawned == spawnEnemy(Fire(prepared, c, in.keys), c, in)
  IN Prune(PlayerHits(Collision(Bullets(Enemies(spawned, c, in), in), c, in), c, in))

update(w, c, in) ==
  LET started == [w EXCEPT !.st.frame = @ + 1, !.st.stageTimer = @ + 1,
                           !.log = [EmptyLog EXCEPT !.paid = w.log.paid]]
      second == c.practice # "none" /\ started.st.frame % 60 = 0
      timed == IF second THEN [started EXCEPT !.st.practiceTimer = @ + 1] ELSE started
  IN IF second /\ c.practice = "mob" /\ timed.st.practiceTimer >= PRACTICE_SECONDS
     THEN EmitPracticeWin([timed EXCEPT !.st.isGameOver = TRUE])
     ELSE Simulate(timed, c, in)

(***************************************************************************)
(* Inputs of one step.                                                     *)
(***************************************************************************)
Calm ==
  [keys |-> {}, mob |-> "drone", seed |-> 0, variant |-> "alpha", pair |-> <<0, 1>>,
   loot |-> 2, target |-> "none", blast |-> "none", struck |-> "none",
   touch |-> "none", near |-> "none", fled |-> "none", gone |-> "none", reach |-> "none",
   pattern |-> 0, orbit |-> <<TRUE, TRUE, TRUE>>, coin |-> FALSE, arrived |-> TRUE,
   tripped |-> "none", mined |-> "none", gravity |-> [x |-> 0, y |-> 120]]

(* the events of a step that depend on positions *)
Events(in) ==
  Cardinality({f \in {"target", "struck", "touch", "near", "fled", "gone", "tripped", "mined"} :
                 in[f] # "none"})

HasBullet(s, owner) == \E k \in 1..Len(s.bullets) : s.bullets[k].owner = owner

HasMine(s) == \E k \in 1..Len(s.bullets) : s.bullets[k].isMine

HasEnemy(s, types) == \E k \in 1..Len(s.enemies) : s.enemies[k].type \in types

Firing(s, c, keys) == "KeyZ" \in keys /\ (s.frame + 1) % BASE_FIRE_RATE = 0 /\ c.weapons # <<>>

KeyChoices(s, c) ==
  {{}} \cup (IF Firing(s, c, {"KeyZ"}) THEN {{"KeyZ"}} ELSE {})
       \cup (IF Len(c.equippedSpells) >= 1 /\ s.player.spellCooldowns[1] <= 0
             THEN {{"KeyX"}} ELSE {})
       \cup (IF Len(c.equippedSpells) >= 2
             THEN {{"KeyX"}, {"KeyC"}, {"KeyX", "KeyC"}} ELSE {})

(* the gravity of somniomancer is drawn at the coming frame; the vector is *)
(* 1.2 at a random angle, here in hundredths along eight directions        *)
GravityDue(s) ==
  /\ s.bossActive /\ (s.frame + 1) % GRAVITY_PERIOD = 0
  /\ \E k \in 1..Len(s.enemies) :
        s.enemies[k].id = s.boss /\ s.enemies[k].variant = "somniomancer"

Directions ==
  {[x |-> 120, y |-> 0], [x |-> -120, y |-> 0], [x |-> 0, y |-> 120], [x |-> 0, y |-> -120],
   [x |-> 85, y |-> 85], [x |-> -85, y |-> 85], [x |-> 85, y |-> -85], [x |-> -85, y |-> -85]}

(* a mob is due at the coming frame *)
MobDue(s, c) ==
  /\ c.practice = "none" /\ ~IsBossRush(c.difficulty)
  /\ (s.frame + 1) % StageSpawnRate(c.difficulty, s.stage) = 0

BossDue(s, c) ==
  /\ c.practice = "none" /\ ~IsBossRush(c.difficulty) /\ ~s.bossActive
  /\ s.stageTimer + 1 > BOSS_STAGE_TIME

Pairs == {<<0, 1>>, <<0, 2>>, <<1, 2>>}

(* Math.random() * 60 of spawnSpecificMob, and the base currency drop *)
Seeds == {0, 59}

Loot == {2, 4}

PairDue(s) ==
  \E k \in 1..Len(s.enemies) :
     /\ s.enemies[k].type = "boss" /\ s.enemies[k].variant = "alpha"
     /\ s.enemies[k].phase = 2 /\ s.enemies[k].phaseTransitionTimer = 0

(* a chain projectile can look for a next target *)
Chaining(s, c) ==
  /\ Len(s.enemies) > 1
  /\ \E k \in 1..Len(c.weapons) : c.weapons[k] \in {"CHAIN_LIGHTNING", "GAUSS_CANNON"}

Explosive(s, c, in) ==
  \/ in.near # "none"
  \/ in.target # "none" /\ \E k \in 1..Len(c.weapons) : c.weapons[k] = "ROCKET_BARRAGE"
  \/ s.player.revives > 0 /\ (in.struck # "none" \/ in.touch # "none")

(* the draws of a step that the followers of a boss consume *)
Gate(s, c) ==
  \E k \in 1..Len(s.enemies) :
     /\ s.enemies[k].type = "boss" /\ s.enemies[k].variant = "alptraum"
     /\ s.enemies[k].state = "fighting"
     /\ s.enemies[k].shotTimer + 1 > ALP_FIRE_RATE

OracleDue(s) ==
  /\ (s.frame + 1) % ORACLE_SPAWN_PERIOD = 0
  /\ \E k \in 1..Len(s.enemies) : s.enemies[k].type = "boss" /\ s.enemies[k].variant = "theta"

CoinDue(s) ==
  \E k \in 1..Len(s.enemies) :
     /\ s.enemies[k].type = "alp_mini_boss" /\ s.enemies[k].variant = "theta"
     /\ s.enemies[k].shotTimer + 1 > 45

Positioning(s) ==
  \E k \in 1..Len(s.enemies) : s.enemies[k].isGhost /\ s.enemies[k].ghostState = "positioning"

Inputs(s, c) ==
  {in \in [keys : KeyChoices(s, c),
           pattern : IF Gate(s, c) THEN {0, 1, 2} ELSE {0},
           orbit : IF OracleDue(s) THEN {<<TRUE, TRUE, TRUE>>, <<TRUE, FALSE, TRUE>>,
                                         <<FALSE, FALSE, FALSE>>}
                   ELSE {<<TRUE, TRUE, TRUE>>},
           coin : IF CoinDue(s) THEN BOOLEAN ELSE {FALSE},
           arrived : IF Positioning(s) THEN BOOLEAN ELSE {TRUE},
           mob : IF MobDue(s, c) THEN EASY_MOBS ELSE {"drone"},
           seed : IF MobDue(s, c) THEN Seeds ELSE {0},
           variant : IF BossDue(s, c) THEN VariantChoices(c.difficulty) ELSE {"alpha"},
           pair : IF PairDue(s) THEN Pairs ELSE {<<0, 1>>},
           loot : IF s.enemies # <<>> THEN Loot ELSE {2},
           target : {"none"} \cup
                    (IF s.enemies # <<>> /\ (HasBullet(s, "player") \/ Firing(s, c, {"KeyZ"}))
                     THEN (IF Len(s.enemies) > 1 THEN {"first", "all"} ELSE {"all"}) ELSE {}),
           blast : {"none", "all"},
           struck : {"none"} \cup (IF HasBullet(s, "enemy") \/ s.bossActive
                                   THEN {"first", "all"} ELSE {}),
           touch : {"none"} \cup (IF s.enemies # <<>> THEN {"all"} ELSE {}),
           near : {"none"} \cup (IF HasEnemy(s, {"kamikaze"}) THEN {"all"} ELSE {}),
           fled : {"none"} \cup (IF HasEnemy(s, {"kamikaze", "oracle_minion", "alp_reflector"})
                                 THEN {"all"} ELSE {}),
           gone : {"none"} \cup (IF s.bullets # <<>> THEN {"all"} ELSE {}),
           reach : {"none"} \cup (IF Chaining(s, c) THEN {"all"} ELSE {}),
           tripped : {"none"} \cup (IF HasMine(s) THEN {"all"} ELSE {}),
           mined : {"none"} \cup (IF HasMine(s) THEN {"all"} ELSE {}),
           gravity : IF GravityDue(s) THEN Directions ELSE {[x |-> 0, y |-> 120]}] :
     /\ Events(in) <= MaxEvents
     /\ in.mined # "none" => (HasBullet(s, "player") \/ Firing(s, c, in.keys))
     /\ (\E k \in Striking([st |-> s], in) : s.bullets[k].isMine) => in.tripped = "all"
     /\ in.target # "none" => (HasBullet(s, "player") \/ Firing(s, c, in.keys))
     /\ in.loot # 2 => in.target # "none"
     /\ in.reach # "none" => in.target # "none"
     /\ in.blast = "all" => Explosive(s, c, in) /\ Len(s.enemies) > 1}

(***************************************************************************)
(* The props of the component and the runs that lead to the initial states.*)
(***************************************************************************)
Props(difficulty, practice, variant, mob, weapon, spellLevel, extraLife) ==
  [difficulty |-> difficulty, practice |-> practice, practiceVariant |-> variant,
   practiceMob |-> mob, weapons |-> <<weapon>>,
   weaponLevel |-> IF weapon = "LASER_STREAM" THEN 3 ELSE 1,
   equippedSpells |-> <<"ORBITAL_STRIKE">>, spellLevel |-> spellLevel, cooldownSec |-> 20,
   extraLife |-> extraLife, attackUp |-> FALSE, pityStacks |-> 0]

World0(c) == [st |-> Construct(c), out |-> <<>>, log |-> EmptyLog]

(* one call of update() *)
Step(w, c, in) == IF w.st.isGameOver THEN w ELSE update(w, c, in)

RECURSIVE Repeat(_, _, _, _)
RepeatOn(w, c, in, n) == IF w.st.frame >= 0 THEN Repeat(w, c, in, n) ELSE w

Repeat(w, c, in, n) ==
  IF n = 0 THEN w
  ELSE IF n = 1 THEN Step(w, c, in)
  ELSE RepeatOn(Repeat(w, c, in, n \div 2), c, in, n - (n \div 2))

(* a script is a sequence of <<n, input>>, n steps under the input, and of *)
(* <<n, script, "times">>, the script played n times over                  *)
RECURSIVE Play(_, _, _)
RECURSIVE Cycle(_, _, _, _)
PlayOn(w, c, script) == IF w.st.frame >= 0 THEN Play(w, c, script) ELSE w

CycleOn(w, c, script, n) == IF w.st.frame >= 0 THEN Cycle(w, c, script, n) ELSE w

Play(w, c, script) ==
  IF script = <<>> THEN w
  ELSE PlayOn(IF Len(Head(script)) = 3
              THEN Cycle(w, c, Head(script)[2], Head(script)[1])
              ELSE Repeat(w, c, Head(script)[2], Head(script)[1]), c, Tail(script))

Cycle(w, c, script, n) ==
  IF n = 0 THEN w
  ELSE IF n = 1 THEN Play(w, c, script)
  ELSE CycleOn(Cycle(w, c, script, n \div 2), c, script, n - (n \div 2))

(* scripted inputs: mobs that leave the arena, a player hugging the boss,  *)
(* projectiles that leave the arena, the spell key                         *)
Sweep == [Calm EXCEPT !.mob = "kamikaze", !.fled = "all"]

Hug == [Calm EXCEPT !.touch = "all"]

Clear == [Calm EXCEPT !.gone = "all"]

Cast == [Calm EXCEPT !.keys = {"KeyX"}]

(* the stage has run until the boss is due *)
PreBoss == <<<<BOSS_STAGE_TIME, Sweep>>>>

(* four contacts with the boss, then the fight goes on until just before   *)
(* the boss's second volley                                                *)
InFight(c) ==
  <<<<HIT_INVULN - 1, Calm>>, <<3 * (HIT_INVULN + 1) + 1, Hug>>,
    <<(ENTER_TICKS + 1 + FireRate(c.difficulty) + 1 - 2 * Lead) - (4 * HIT_INVULN + 3), Clear>>>>

(* the boss was brought under the threshold while entering, and its        *)
(* transition window is about to end                                       *)
LateWindow ==
  <<<<ENTER_TICKS - Lead, Calm>>, <<1, Cast>>, <<PHASE_TRANSITION_TICKS - 2 * Lead, Calm>>>>

StageRun == Props("EXTREME", "none", Null, Null, "LASER_STREAM", 3, FALSE)

BossStage == Props("EXTREME", "none", Null, Null, "PLASMA_CUTTER", 3, FALSE)

BossRush == Props("BOSS_RUSH", "none", Null, Null, "PLASMA_CUTTER", 3, FALSE)

PracticeBoss(difficulty, variant, weapon, extraLife) ==
  Props(difficulty, "boss", variant, Null, weapon, 1, extraLife)

PracticeMob == Props("EXTREME", "mob", Null, "kamikaze", "PLASMA_CUTTER", 1, FALSE)

(* the runs the state machine starts from: the props and the inputs so far *)
Runs ==
  {<<StageRun, <<>>>>,
   <<BossStage, PreBoss>>,
   <<BossRush, <<>>>>,
   <<PracticeMob, <<>>>>,
   <<PracticeBoss("EASY", "alpha", "PLASMA_CUTTER", FALSE), <<>>>>,
   <<PracticeBoss("EASY", "alpha", "PLASMA_CUTTER", FALSE), LateWindow>>,
   <<PracticeBoss("EASY", "alpha", "PLASMA_CUTTER", FALSE),
     InFight(PracticeBoss("EASY", "alpha", "PLASMA_CUTTER", FALSE))>>,
   <<PracticeBoss("EASY", "alpha", "PLASMA_CUTTER", TRUE),
     InFight(PracticeBoss("EASY", "alpha", "PLASMA_CUTTER", TRUE))>>,
   <<PracticeBoss("NORMAL", "alpha", "PLASMA_CUTTER", FALSE),
     InFight(PracticeBoss("NORMAL", "alpha", "PLASMA_CUTTER", FALSE))>>,
   <<PracticeBoss("EASY", "somniomancer", "ROCKET_BARRAGE", FALSE), <<>>>>,
   <<PracticeBoss("EASY", "somniomancer", "ROCKET_BARRAGE", FALSE),
     InFight(PracticeBoss("EASY", "somniomancer", "ROCKET_BARRAGE", FALSE))>>}

(* kamikazes that dive onto the player every tick *)
Dive == [Calm EXCEPT !.near = "all"]

(* mob practice against kamikazes: three strikes have landed and the       *)
(* invulnerability after the third is about to run out                     *)
ThreeStrikes == <<<<19 * SpawnRate("EXTREME") - Lead, Dive>>>>

(* the progression layer's share of a finished run: a win pays half again *)
FinalFragments(ev) == IF ev.win THEN (ev.fragments * 3) \div 2 ELSE ev.fragments

(* scripted inputs of a whole campaign: mobs and enemy projectiles leave   *)
(* the arena, the spell is cast, the weapon is fired into every enemy      *)
Tidy == [Calm EXCEPT !.mob = "kamikaze", !.fled = "all", !.gone = "all"]

CastTidy == [Tidy EXCEPT !.keys = {"KeyX"}]

Shoot == [Calm EXCEPT !.keys = {"KeyZ"}, !.target = "all", !.mob = "kamikaze", !.fled = "all"]

(* the casts of the spell that take the boss of the stage to hp <= 0 *)
CastsFor(c, stage) ==
  LET strike == IF c.spellLevel >= 3 THEN 2 * ORBITAL_STRIKE_DAMAGE ELSE ORBITAL_STRIKE_DAMAGE
  IN (BossFinalHp(c, stage) + strike - 1) \div strike

RECURSIVE Strikes(_, _)
Strikes(c, n) ==
  IF n <= 1 THEN <<<<1, CastTidy>>>>
  ELSE <<<<1, CastTidy>>, <<SpellCooldown(c, "ORBITAL_STRIKE"), Tidy>>>> \o Strikes(c, n - 1)

(* every stage runs until its boss is on the field and the spell has taken *)
(* the boss to hp <= 0; a shot finishes the boss of every stage but the    *)
(* last                                                                    *)
RECURSIVE Campaign(_, _, _)
Campaign(c, stage, last) ==
  LET stand == <<<<BOSS_STAGE_TIME + WAVE_DELAY, Tidy>>>> \o Strikes(c, CastsFor(c, stage))
  IN IF stage >= last THEN stand
     ELSE stand \o <<<<BASE_FIRE_RATE, Shoot>>>> \o Campaign(c, stage + 1, last)

Contender(d) == Props(d, "none", Null, Null, "PLASMA_CUTTER", 3, FALSE)

EndRuns ==
  {<<PracticeBoss("EASY", "alpha", "PLASMA_CUTTER", FALSE),
     InFight(PracticeBoss("EASY", "alpha", "PLASMA_CUTTER", FALSE))>>,
   <<PracticeMob, ThreeStrikes>>,
   <<Contender("EASY"), Campaign(Contender("EASY"), 1, MAX_STAGES - 1)>>}

WinRuns ==
  {<<Contender(d), Campaign(Contender(d), 1, MAX_STAGES - 1)>> : d \in {"EASY", "INFINITY"}}

(* stage play with the chain weapon, once two drones are on the field *)
ChainStage == Props("NORMAL", "none", Null, Null, "CHAIN_LIGHTNING", 1, FALSE)

TwoMobs == <<<<2 * SpawnRate("NORMAL"), Calm>>>>

ChainRuns == {<<ChainStage, TwoMobs>>}

(***************************************************************************)
(* The state machine.                                                      *)
(***************************************************************************)
(* the world a run has reached is the state *)
Reached(c, w) == cfg = c /\ state = w.st /\ outcomes = w.out /\ log = w.log

Init ==
  /\ \E run \in Runs : Reached(run[1], Play(World0(run[1]), run[1], run[2]))
  /\ isPaused = FALSE
  /\ ticks = 0
  /\ accumulator = 0
  /\ frameSteps = 0

(* the world after the step becomes the state *)
Becomes(w) == state' = w.st /\ outcomes' = w.out /\ log' = w.log

(* a frame of the loop that calls update() whether or not the game is paused *)
UpdateWhilePaused ==
  IF state.isGameOver
  THEN UNCHANGED vars
  ELSE /\ ticks < MaxTicks
       /\ \E in \in Inputs(state, cfg) :
            Becomes(update([st |-> state, out |-> outcomes, log |-> log], cfg, in))
       /\ ticks' = ticks + 1
       /\ UNCHANGED <<cfg, isPaused, accumulator, frameSteps>>

(* one frame of the loop: update() unless paused or over, then draw() *)
Update ==
  IF isPaused \/ state.isGameOver
  THEN UNCHANGED vars
  ELSE /\ ticks < MaxTicks
       /\ \E in \in Inputs(state, cfg) :
            Becomes(update([st |-> state, out |-> outcomes, log |-> log], cfg, in))
       /\ ticks' = ticks + 1
       /\ UNCHANGED <<cfg, isPaused, accumulator, frameSteps>>

(* handleKeyDown with Escape *)
TogglePause ==
  /\ isPaused' = ~isPaused
  /\ UNCHANGED <<cfg, state, outcomes, log, ticks, accumulator, frameSteps>>

Next == Update \/ TogglePause

Spec == Init /\ [][Next]_vars

(* the state reached by one of the runs *)
Start(runs) ==
  /\ \E run \in runs : Reached(run[1], Play(World0(run[1]), run[1], run[2]))
  /\ isPaused = FALSE
  /\ ticks = 0
  /\ accumulator = 0
  /\ frameSteps = 0

SpecEnd == Start(EndRuns) /\ [][Next]_vars

SpecWin == Start(WinRuns) /\ [][Next]_vars

SpecChain == Start(ChainRuns) /\ [][Next]_vars

(* scripted inputs of a boss fight: the boss that arrives is of the named  *)
(* variant, the attack selector draws the named pattern, one shot of the   *)
(* weapon reaches the named enemies                                        *)
Arrive(variant) == [Tidy EXCEPT !.variant = variant]

Draw(pattern) == [Clear EXCEPT !.pattern = pattern]

Aim(target) == [Calm EXCEPT !.keys = {"KeyZ"}, !.target = target]

(* n shots, one on every frame that fires, the projectiles gone in between *)
Volleys(n, target) ==
  <<<<n, <<<<BASE_FIRE_RATE - 1, Clear>>, <<1, Aim(target)>>>>, "times">>>>

(* stage 1 with a theta boss: struck once by the spell while it enters,    *)
(* through its first spawn of minions, then under fire                     *)
OracleStage == Props("EXTREME", "none", Null, Null, "LASER_STREAM", 1, FALSE)

OracleFight(shots) ==
  <<<<BOSS_STAGE_TIME + 1, Arrive("theta")>>, <<1, CastTidy>>,
    <<ORACLE_SPAWN_PERIOD * 6 - (BOSS_STAGE_TIME + 2), Clear>>>> \o Volleys(shots, "first")

(* practice against alptraum, struck once by the spell while it enters: up *)
(* to the first pass of the gate, into an ultimate and up to the next      *)
(* pass, and with the sub-minions struck by the spell and shot one by one  *)
AlpPractice == PracticeBoss("EXTREME", "alptraum", "PLASMA_CUTTER", FALSE)

Entered == <<<<1, Clear>>, <<1, Cast>>, <<ENTER_TICKS - Lead - 2, Clear>>>>

InUltimate(pattern) ==
  <<<<1, Clear>>, <<1, Cast>>, <<ENTER_TICKS - 2, Clear>>, <<1, Draw(pattern)>>,
    <<ALP_FIRE_RATE + 1 - Lead, Clear>>>>

Cleared(pattern) ==
  <<<<ENTER_TICKS, Clear>>, <<1, Draw(pattern)>>, <<1, Cast>>, <<BASE_FIRE_RATE - 2, Clear>>,
    <<1, Aim("last")>>>> \o Volleys(2, "last")
    \o <<<<ALP_FIRE_RATE + 1 - Lead - 3 * BASE_FIRE_RATE, Clear>>>>

(* three casts of the spell have left alptraum with a tenth of its hp, its *)
(* transition into phase 2 is over and its shotTimer is about to pass the  *)
(* fire rate on a frame that 5 does not divide                             *)
Starved ==
  <<<<1, Tidy>>>> \o Strikes(AlpPractice, 3)
    \o <<<<PHASE_TRANSITION_TICKS + 3 * (ALP_FIRE_RATE + 1) - Lead - 1, Tidy>>>>

(* the fight the state machine of the followers starts from: 81 shots      *)
(* leave the theta boss within one shot of its end                         *)
KinRuns == {<<OracleStage, OracleFight(81)>>}

SpecKin == Start(KinRuns) /\ [][Next]_vars

(* the fights the state machine of the ultimates starts from *)
UltRuns ==
  {<<AlpPractice, Entered>>,
   <<AlpPractice, InUltimate(1)>>,
   <<AlpPractice, InUltimate(2)>>,
   <<AlpPractice, Cleared(1)>>,
   <<AlpPractice, Starved>>}

SpecUlt == Start(UltRuns) /\ [][Next]_vars

(***************************************************************************)
(* Properties.                                                             *)
(***************************************************************************)
World == [st |-> state, out |-> outcomes, log |-> log]

(* the step was a call of update() that ran *)
Stepped == state'.frame = state.frame + 1

Bosses(s) == {k \in 1..Len(s.enemies) : s.enemies[k].type = "boss"}

Below40(e) == e.hp * 10 < e.maxHp * 4

NoRepeat(seq) == \A i, j \in 1..Len(seq) : i # j => seq[i] # seq[j]

(* C1: over any run onGameOver is invoked at most once in total. *)
OnGameOverAtMostOnce == Len(outcomes) <= 1

(* C2: at the end of every tick the player's hp satisfies 0 <= hp <= maxHp. *)
PlayerHpWithinBounds ==
  0 <= state.player.hp /\ state.player.hp <= state.player.maxHp

(* C3: an enemy marked dead stays dead (it is removed by the prune of the  *)
(* same tick with its flag set, and its id never comes back), and over the *)
(* run no enemy id receives the death payout twice.                        *)
DeadOnceAndPaidOnce ==
  /\ \A k \in 1..Len(state.enemies) : ~state.enemies[k].dead
  /\ \A id \in log.marked : id \notin Ids(state.enemies)
  /\ NoRepeat(log.paid)
  /\ \A k \in 1..Len(log.paid) : log.paid[k] \notin Ids(state.enemies)
  /\ \A k \in 1..Len(log.payouts) : log.payouts[k] \in log.marked
  /\ \A i, j \in 1..Len(state.enemies) :
        i # j => state.enemies[i].id # state.enemies[j].id

(* an enemy was paid in a tick in which another projectile overlapping it  *)
(* was turned away because it was already dead                             *)
PaidUnderSeveralProjectiles ==
  \E k \in 1..Len(log.payouts) : \E pair \in log.deadSkips : pair[2] = log.payouts[k]

(* C4: no enemy with hp <= 0 stays alive past the end of a tick. *)
NoEnemyAliveAtZeroHp ==
  [][Stepped => \A k \in 1..Len(state'.enemies) : state'.enemies[k].hp > 0]_vars

(* C5: at every tick at most one non-dead boss exists, and generateBoss    *)
(* has no effect while a boss is active, whatever the mode.                *)
AtMostOneBoss ==
  /\ Cardinality(Bosses(state)) <= 1
  /\ Cardinality(Bosses(state)) = 1 => state.bossActive
  /\ log.bossSpawns <= 1
  /\ state.bossActive =>
       \A forced \in ModelledVariants \cup {Null} : \A rolled \in ModelledVariants :
          \A seed \in Seeds : generateBoss(World, cfg, forced, rolled, seed) = World

(* a boss is active and alive, after a step in which the director ran *)
BossIsActive ==
  state.bossActive /\ Cardinality(Bosses(state)) = 1 /\ ticks > 1

(* C6: every regular mob the spawn director spawns is spawned while no     *)
(* boss is active and the inter-stage delay is over, and never in the      *)
(* boss-rush difficulties.                                                 *)
NoMobWhileBossOrDelay ==
  \A k \in 1..Len(log.mobSpawns) :
     /\ ~log.mobSpawns[k].bossActive
     /\ log.mobSpawns[k].waveDelay <= 0
     /\ ~IsBossRush(log.mobSpawns[k].difficulty)

(* the director ran at a spawn frame of the inter-stage delay and spawned  *)
(* nothing                                                                 *)
DirectorHeldBack ==
  /\ cfg.practice = "none" /\ ~IsBossRush(cfg.difficulty)
  /\ state.waveDelay > 0 /\ ~state.bossActive
  /\ state.frame % SpawnRate(cfg.difficulty) = 0
  /\ log.mobSpawns = <<>> /\ ticks > 0

PhaseFlipsOnce ==
  [][\A k \in Bosses(state') :
        LET e == state'.enemies[k]
        IN /\ e.phase \in {1, 2}
           /\ e.setupRuns = (IF e.phase = 2 THEN 1 ELSE 0)
           /\ \A j \in Bosses(state) :
                 state.enemies[j].id = e.id /\ state.enemies[j].phase = 2 => e.phase = 2]_vars

(* a boss in phase 2 went on being updated under the threshold *)
BossLivesInPhaseTwo ==
  \E k \in Bosses(state) :
     /\ state.enemies[k].phase = 2 /\ Below40(state.enemies[k])
     /\ state.enemies[k].phaseTransitionTimer < PHASE_TRANSITION_TICKS - 2
     /\ ticks > 2

(* C9 as stated: at the end of the tick in which a boss's hp fell below    *)
(* 40% of maxHp its phase is 2.                                            *)
PhaseTwoInTheSameTick ==
  \A k \in Bosses(state) : Below40(state.enemies[k]) => state.enemies[k].phase = 2

(* C9 amended: a boss whose hp is below 40% of maxHp at the end of a tick  *)
(* is in phase 2 at the end of the next tick that updates it.              *)
PhaseTwoByTheNextTick ==
  [][Stepped =>
       \A j \in Bosses(state) : \A k \in Bosses(state') :
          state.enemies[j].id = state'.enemies[k].id /\ Below40(state.enemies[j])
            => state'.enemies[k].phase = 2]_vars

(* a boss flipped in a tick in which no spell was cast: the drop under the *)
(* threshold came from the resolver of the tick before                     *)
FlippedTheTickAfter ==
  \E k \in Bosses(state) :
     /\ state.enemies[k].id \in log.flipped
     /\ state.player.spellCooldowns[1] < SpellCooldown(cfg, "ORBITAL_STRIKE") - 1

(* C10: in every tick from the phase flip until the transition timer has   *)
(* counted down to 0, the boss emits no projectile and spawns no minion.   *)
SilentDuringTransition ==
  [][Stepped =>
       \A k \in Bosses(state') :
          LET e == state'.enemies[k]
              before == {j \in Bosses(state) : state.enemies[j].id = e.id}
          IN (e.phaseTransitionTimer > 0
              \/ \E j \in before : state.enemies[j].phaseTransitionTimer > 0)
             => e.id \notin log'.bossEmits]_vars

(* a boss that has reached its anchor is inside its transition window *)
FightingBossInWindow ==
  \E k \in Bosses(state) :
     /\ state.enemies[k].state = "fighting"
     /\ state.enemies[k].phaseTransitionTimer > 0
     /\ state.enemies[k].phaseTransitionTimer < PHASE_TRANSITION_TICKS - 2

(* C11 as stated: a chain projectile that found a next target is at that   *)
(* target's position.                                                      *)
ChainRelocatesToTarget ==
  \A k \in 1..Len(state.bullets) :
     state.bullets[k].aim # 0 => state.bullets[k].pos = state.bullets[k].aim

(* C11 amended: a chain projectile that hits an enemy loses one jump; if   *)
(* another live enemy is within range it takes the position of the enemy   *)
(* it hit and is aimed at one of those in range, and it stays alive;       *)
(* otherwise it is marked dead.                                            *)
ChainJumpsFromTheHitEnemy ==
  [][Stepped =>
       \A n \in 1..Len(log'.chains) :
          LET ev == log'.chains[n]
              later == {m \in (n + 1)..Len(log'.chains) : log'.chains[m].bullet = ev.bullet}
          IN /\ ev.near = {} => ev.bullet \notin Ids(state'.bullets)
             /\ (ev.near # {} /\ later = {}) =>
                   \E k \in 1..Len(state'.bullets) :
                      LET b == state'.bullets[k]
                      IN /\ b.id = ev.bullet /\ ~b.dead
                         /\ b.chainCount = ev.before - 1
                         /\ b.pos = ev.hit
                         /\ b.aim \in ev.near]_vars

(* a projectile with four jumps hit an enemy with another one in range *)
ChainedWithThreeLeft ==
  \E n \in 1..Len(log.chains) : \E k \in 1..Len(state.bullets) :
     /\ log.chains[n].before = 4 /\ log.chains[n].near # {}
     /\ state.bullets[k].id = log.chains[n].bullet
     /\ state.bullets[k].chainCount = 3
     /\ state.bullets[k].pos = log.chains[n].hit

(* C12: while the simulation is paused no step changes the world state or  *)
(* emits an outcome, and a toggle of the pause changes neither; so two     *)
(* toggles in succession leave the simulation running on the world state   *)
(* it had before the first.                                                *)
PauseFreezesTheWorld ==
  [][/\ isPaused => (state' = state /\ outcomes' = outcomes)
     /\ isPaused' # isPaused => (state' = state /\ outcomes' = outcomes)]_vars

(* the simulation is paused in the middle of a run with enemies on the field *)
PausedMidRun ==
  isPaused /\ ticks > 0 /\ ticks < MaxTicks /\ state.enemies # <<>> /\ ~state.isGameOver

(* the outcome events emitted by the step *)
NewOutcomes == {k \in 1..Len(outcomes') : k > Len(outcomes)}

(* C13: a tick in which a hit takes the player's hp to 0 or below, with no *)
(* shield and no revive left, sets the game over and emits a loss event    *)
(* carrying the score, the currency and the session statistics accumulated *)
(* when the hit landed: those of the end of the tick for a projectile or   *)
(* contact hit, those before the tick's collisions for a kamikaze strike.  *)
LethalHitEmitsLoss ==
  [][(Stepped /\ state.player.hp > 0 /\ state'.player.hp <= 0) =>
       /\ state'.isGameOver
       /\ \E k \in NewOutcomes :
             LET ev == outcomes'[k]
             IN /\ ~ev.win /\ ev.detailed
                /\ ev.stage = state'.stage
                /\ ev.stats.shotsFired = state'.stats.shotsFired
                /\ \/ /\ ev.score = state'.score
                      /\ ev.fragments = state'.dataFragments
                      /\ ev.stats = state'.stats
                   \/ /\ ev.score = state.score
                      /\ ev.fragments = state.dataFragments
                      /\ ev.stats.kills = state.stats.kills]_vars

(* the player went from hp 20 to hp 0 and the run ended with a loss *)
DownFromTwenty ==
  /\ state.player.hp = 0 /\ state.player.maxHp = PLAYER_BASE_HP
  /\ Len(outcomes) = 1 /\ ~outcomes[1].win /\ ticks > 0

(* a run of the campaign proper: no practice, no boss rush, not endless *)
RegularRun ==
  /\ cfg.practice = "none"
  /\ cfg.difficulty \in {"EASY", "NORMAL", "HARD", "EXTREME"}

(* C14 as stated: in a regular run a win event is emitted in the tick the  *)
(* boss of stage 6 is defeated and reports stage 6; in endless difficulty  *)
(* no win event is emitted.                                                *)
WinWhenStageSixBossFalls ==
  [][/\ RegularRun =>
          \A k \in NewOutcomes :
            outcomes'[k].win => state.stage = MAX_STAGES /\ outcomes'[k].stage = MAX_STAGES
     /\ cfg.difficulty = "INFINITY" => \A k \in NewOutcomes : ~outcomes'[k].win]_vars

(* C14 amended: the stage counter advances before it is tested, so in a    *)
(* regular run the win event is emitted in the tick the boss of stage 5 is *)
(* defeated; it reports stage 6, the score and the raw currency, on which  *)
(* the progression layer applies 1.5x rounded down; no win event is        *)
(* emitted while the stage counter is below 6; in endless difficulty no    *)
(* win event is emitted.                                                   *)
WinWhenStageFiveBossFalls ==
  [][/\ (RegularRun /\ state.stage = MAX_STAGES - 1 /\ state'.stage = MAX_STAGES) =>
          /\ Cardinality(NewOutcomes) = 1
          /\ \A k \in NewOutcomes :
               /\ outcomes'[k].win
               /\ outcomes'[k].stage = MAX_STAGES
               /\ outcomes'[k].score = state'.score
               /\ outcomes'[k].fragments = state'.dataFragments
               /\ FinalFragments(outcomes'[k]) = (3 * state'.dataFragments) \div 2
          /\ ~state'.isGameOver
     /\ RegularRun =>
          \A k \in NewOutcomes : outcomes'[k].win => state'.stage >= MAX_STAGES
     /\ cfg.difficulty = "INFINITY" => \A k \in NewOutcomes : ~outcomes'[k].win]_vars

WonTheCampaign ==
  /\ RegularRun
  /\ state.stage = MAX_STAGES
  /\ Len(outcomes) = 1
  /\ outcomes[1].win
  /\ outcomes[1].stage = MAX_STAGES
  /\ FinalFragments(outcomes[1]) > outcomes[1].fragments

(* C15: once an outcome event has been emitted (loss, final-stage win,     *)
(* practice win) no later update step changes the world state.             *)
NoStepAfterTheEnd == [][outcomes # <<>> => state' = state]_vars

(* the entities of s that depend on the boss with the id b *)
Dependents(s, b) ==
  {k \in 1..Len(s.enemies) :
     \/ s.enemies[k].type \in {"boss_clone", "alp_mini_boss", "alp_reflector", "seraph_drone"}
     \/ s.enemies[k].isGhost
     \/ s.enemies[k].type = "oracle_minion" /\ s.enemies[k].parentId = b}

(* C16: in the tick in which a boss is removed, every entity that depends  *)
(* on it (clones, ghost drones, Alptraum mini-bosses and reflectors,       *)
(* Seraph drones, Oracle minions parented to it) is marked dead, so none   *)
(* of them is in the enemy list the tick leaves.                           *)
DependentsFallWithTheBoss ==
  [][\A k \in Bosses(state) :
       (Stepped /\ state.enemies[k].id \notin Ids(state'.enemies)) =>
          Dependents(state', state.enemies[k].id) = {}]_vars

(* C17: a minion or clone whose parentId refers to an enemy that is dead   *)
(* or no longer in the enemy list marks itself dead on its next behaviour  *)
(* update, whether it is a Seraph drone, an Alptraum mini-boss or an       *)
(* Oracle minion of either variant.                                        *)
OrphansMarkThemselvesDead == log.orphans \subseteq log.marked

(* the sub-minions of the ultimates in s *)
Minis(s) == {s.enemies[k].id : k \in {j \in 1..Len(s.enemies) : s.enemies[j].type = "alp_mini_boss"}}

(* C18: while a gated ultimate (trinity or duo) is active the boss cannot  *)
(* enter another one: a tick that starts with an ultimate active charges   *)
(* no hp cost and spawns no new sub-minion, and trinity and duo are never  *)
(* active at the same time.                                                *)
NoEntryWhileUltimateActive ==
  [][Stepped =>
       /\ \A k \in Bosses(state) :
            (state.enemies[k].trinityActive \/ state.enemies[k].duoActive) =>
               /\ \A u \in 1..Len(log'.ultimates) : log'.ultimates[u].boss # state.enemies[k].id
               /\ Minis(state') \subseteq Minis(state)
       /\ \A k \in Bosses(state') :
            ~(state'.enemies[k].trinityActive /\ state'.enemies[k].duoActive)]_vars

(* a boss passed the gate of its attack logic with its trinity running and *)
(* went on with it                                                         *)
HeldItsTrinity ==
  /\ ticks > 0
  /\ log.held = {"trinity"}
  /\ log.ultimates = <<>>
  /\ \E k \in Bosses(state) : state.enemies[k].trinityActive /\ ~state.enemies[k].duoActive

(* C19: once a gated ultimate has begun, its 1200-tick timer counts down   *)
(* once per tick until the ultimate ends: every tick that starts and ends  *)
(* with the ultimate running takes one off its timer.                      *)
UltimateCountsEveryTick ==
  [][Stepped =>
       \A k \in Bosses(state) : \A j \in Bosses(state') :
          state'.enemies[j].id = state.enemies[k].id =>
             /\ (state.enemies[k].trinityActive /\ state'.enemies[j].trinityActive) =>
                   state'.enemies[j].trinityTimer = state.enemies[k].trinityTimer - 1
             /\ (state.enemies[k].duoActive /\ state'.enemies[j].duoActive) =>
                   state'.enemies[j].duoTimer = state.enemies[k].duoTimer - 1]_vars

(* C20: a boss whose hp is at most 15% of its maxHp falls back to a        *)
(* default attack whenever a gated ultimate is selected that it cannot     *)
(* pay: the selection emits at least one projectile when the projectile    *)
(* list has room for it.                                                   *)
UnaffordableUltimateFallsBack ==
  \A k \in 1..Len(log.fallbacks) :
     (log.fallbacks[k].room /\ log.fallbacks[k].hp * 100 <= log.fallbacks[k].maxHp * 15) =>
        log.fallbacks[k].emitted > 0

(***************************************************************************)
(* Practice against drones with the time dilator: two drones are on the    *)
(* field, the first has fired, and the spell has just been cast.           *)
(***************************************************************************)
DilatePractice ==
  [Props("EASY", "mob", Null, "drone", "PLASMA_CUTTER", 2, FALSE)
     EXCEPT !.equippedSpells = <<"TIME_DILATOR">>]

Eager == [Calm EXCEPT !.seed = 59]

DronesOut ==
  <<<<SpawnRate("EASY") + MOB_SHOT_PERIOD - 59, Eager>>, <<1, [Eager EXCEPT !.keys = {"KeyX"}]>>>>

DilateRuns == {<<DilatePractice, DronesOut>>}

SpecDilate == Start(DilateRuns) /\ [][Next]_vars

(* C21: while the time-dilation buff is active, the enemies and the enemy  *)
(* projectiles move at the reduced time scale and the enemies' shot timers *)
(* advance at the reduced time scale, while the player's projectiles move  *)
(* at the normal rate.                                                     *)
DilationSlowsEnemiesOnly ==
  [][Stepped /\ state'.timeScale < FIFTHS =>
       /\ \A m \in log'.moves :
            m.scale = IF m.owner = "enemy" THEN state'.timeScale ELSE FIFTHS
       /\ \A j \in DOMAIN state.enemies : \A k \in DOMAIN state'.enemies :
            /\ state.enemies[j].id = state'.enemies[k].id
            /\ state'.enemies[k].shotTimer > state.enemies[j].shotTimer
            => FIFTHS * (state'.enemies[k].shotTimer - state.enemies[j].shotTimer)
                 = state'.timeScale]_vars

(***************************************************************************)
(* Practice with two spells equipped and no weapon: from the first frame,  *)
(* and with the second spell cast on the first frame and about to be ready *)
(* again.  With two spells the keys are also pressed during the cooldowns. *)
(***************************************************************************)
SpellPractice ==
  [Props("EASY", "mob", Null, "drone", "PLASMA_CUTTER", 2, FALSE)
     EXCEPT !.equippedSpells = <<"TIME_DILATOR", "EMP_BLAST">>, !.cooldownSec = 5,
            !.weapons = <<>>]

Recast == <<<<1, [Calm EXCEPT !.keys = {"KeyC"}]>>, <<MIN_COOLDOWN - Lead, Calm>>>>

SpellRuns == {<<SpellPractice, <<>>>>, <<SpellPractice, Recast>>}

SpecSpell == Start(SpellRuns) /\ [][Next]_vars

Slots == DOMAIN state.player.equippedSpells

CastSlots(l) == {l.casts[k].slot : k \in DOMAIN l.casts}

(* C22: a spell takes effect only when its cooldown is <= 0; the cast sets *)
(* the cooldown of its slot to at least 60, less the tick that has passed; *)
(* every other cooldown decreases by 1 per tick down to 0, so that no cast *)
(* changes the cooldown of another slot and no spell is cast again while   *)
(* its cooldown is > 0.                                                    *)
CooldownGatesEachSpell ==
  [][Stepped =>
       /\ \A k \in Slots :
            IF k \in CastSlots(log')
            THEN /\ state.player.spellCooldowns[k] <= 0
                 /\ state'.player.spellCooldowns[k] >= MIN_COOLDOWN - 1
            ELSE state'.player.spellCooldowns[k] = Max(0, state.player.spellCooldowns[k] - 1)
       /\ state'.player.activeBuffs.TIME_DILATOR > state.player.activeBuffs.TIME_DILATOR
            => \E k \in Slots : /\ state.player.equippedSpells[k] = "TIME_DILATOR"
                                /\ state.player.spellCooldowns[k] <= 0]_vars

(* the second spell is cast again at the end of its 60 ticks while the     *)
(* first one is cooling down                                               *)
RecastWhileOtherCools ==
  /\ 2 \in CastSlots(log)
  /\ state.frame > MIN_COOLDOWN
  /\ state.player.spellCooldowns[1] > 0
  /\ state.player.spellCooldowns[2] = MIN_COOLDOWN - 1

(* C24: a projectile that has been marked dead in a tick is not processed  *)
(* again in that tick: the projectile loop advances no projectile that is  *)
(* already marked dead.                                                    *)
DeadProjectilesAreSkipped == log.late = {}

(* C23: a boss goes from entering to fighting in phase 1, through the      *)
(* phase transition to fighting in phase 2: it never returns from fighting *)
(* to entering, emits nothing while entering, and is in phase 1 with no    *)
(* transition running for as long as it is entering.                       *)
BossFollowsItsStateOrder ==
  [][Stepped =>
       /\ \A k \in Bosses(state') :
            state'.enemies[k].state = "entering"
              => /\ state'.enemies[k].id \notin log'.bossEmits
                 /\ state'.enemies[k].phase = 1
                 /\ state'.enemies[k].phaseTransitionTimer = 0
       /\ \A j \in Bosses(state) : \A k \in Bosses(state') :
            state.enemies[j].id = state'.enemies[k].id /\ state.enemies[j].state = "fighting"
              => state'.enemies[k].state = "fighting"]_vars

(* C25: an enemy that has been marked dead in a tick takes part in no      *)
(* further interaction in that tick: it deals no contact damage to the     *)
(* player.                                                                 *)
DeadEnemiesStayOut == log.contacts = {}

(* C30: the next target of a chain is a valid enemy within range: not the  *)
(* enemy just hit, not a ghost, and not an enemy the projectile has        *)
(* already hit.                                                            *)
ChainTargetIsValid ==
  \A k \in DOMAIN log.chains :
     LET ch == log.chains[k]
     IN ch.target # 0 => /\ ch.target # ch.hit
                         /\ ~ch.ghost
                         /\ ch.target \notin ch.listed

(***************************************************************************)
(* Practice against alpha with the level-3 gauss cannon, the boss alone on *)
(* the field and fighting, shortly before the cannon is due.               *)
(***************************************************************************)
GaussPractice == [PracticeBoss("EASY", "alpha", "GAUSS_CANNON", FALSE) EXCEPT !.weaponLevel = 3]

GaussDue == <<<<9 * GAUSS_PERIOD - Lead, Clear>>>>

GaussRuns == {<<GaussPractice, GaussDue>>}

SpecGauss == Start(GaussRuns) /\ [][Next]_vars

(* C29: a piercing projectile that hits an enemy is not re-aimed, and the  *)
(* hit destroys it only when its piercing budget is exhausted.             *)
PiercingKeepsItsCourse ==
  /\ \A k \in DOMAIN log.chains :
        log.chains[k].piercing => log.chains[k].target = 0 /\ log.chains[k].before <= 1
  /\ \A k \in DOMAIN state.bullets :
        state.bullets[k].piercing /\ state.bullets[k].hitList # {} => state.bullets[k].aim = 0

(***************************************************************************)
(* Practice against alpha with the rocket barrage: the boss, at 0 hp since *)
(* the strike of the second frame, has just summoned its two drones.       *)
(***************************************************************************)
RocketPractice == PracticeBoss("EASY", "alpha", "ROCKET_BARRAGE", FALSE)

Summoned == <<<<1, Clear>>, <<1, Cast>>, <<SUMMON_PERIOD + Lead - 2, Clear>>>>

SplashRuns == {<<RocketPractice, Summoned>>}

SpecSplash == Start(SplashRuns) /\ [][Next]_vars

(* C26: after the hit that kills a boss in a tick, nothing changes the hp  *)
(* of that boss again in that tick, neither a projectile nor a splash      *)
(* explosion, and the hp of a boss never increases.                        *)
DeadBossHpIsFinal ==
  [][Stepped =>
       /\ \A h \in log'.after : ~(h.type = "boss" /\ h.dead)
       /\ \A j \in Bosses(state) : \A k \in Bosses(state') :
            state.enemies[j].id = state'.enemies[k].id
              => state'.enemies[k].hp <= state.enemies[j].hp]_vars


(***************************************************************************)
(* Stage 1 on EXTREME with level-2 rockets: a drone arrives on the last    *)
(* frame of the stage clock, alptraum on the next one with its ghost and   *)
(* its shield pool, the spell is on cooldown.                              *)
(***************************************************************************)
NightStage ==
  [Props("EXTREME", "none", Null, Null, "ROCKET_BARRAGE", 1, FALSE) EXCEPT !.weaponLevel = 2]

Nightfall ==
  <<<<BOSS_STAGE_TIME - 2, Sweep>>, <<1, CastTidy>>, <<1, Calm>>, <<1, Arrive("alptraum")>>,
    <<Lead - 1, Clear>>>>

NightRuns == {<<NightStage, Nightfall>>}

SpecNight == Start(NightRuns) /\ [][Next]_vars

(* C27: while the damage-absorbing shield of a boss is active with a pool  *)
(* above zero, the damage of the player's weapons is taken from the pool   *)
(* and the hp of the boss does not decrease until the pool is exhausted.   *)
ShieldAbsorbsWeapons ==
  \A h \in log.after : h.shielded => h.kind \notin {"projectile", "splash"}

(* C28: an enemy flagged as a ghost is never damaged by any source, deals  *)
(* no contact damage, and the player's projectiles pass through it.        *)
GhostsAreUntouched ==
  \A h \in log.after : ~h.ghost


(***************************************************************************)
(* Stage 1 against theta, unarmed: four rounds of orbiting minions and two *)
(* of crossing ones are on the field, the seventh round is about to come.  *)
(***************************************************************************)
CapStage == [OracleStage EXCEPT !.weapons = <<>>, !.equippedSpells = <<>>]

Cross == [Clear EXCEPT !.orbit = <<FALSE, FALSE, FALSE>>]

Crowded ==
  <<<<BOSS_STAGE_TIME + 1, Arrive("theta")>>,
    <<ORACLE_SPAWN_PERIOD * 10 - 1 - (BOSS_STAGE_TIME + 1), Clear>>,
    <<ORACLE_SPAWN_PERIOD + 1, Cross>>,
    <<ORACLE_SPAWN_PERIOD - Lead - 1, Clear>>, <<1, [Calm EXCEPT !.touch = "first"]>>>>

(* practice against alpha with the orbs at level 1 and 2: every orb the    *)
(* level allows is out and the next frame that 30 divides is about to come *)
OrbPractice(lvl) ==
  [PracticeBoss("EASY", "alpha", "ORBITING_ORBS", FALSE)
     EXCEPT !.weaponLevel = lvl, !.equippedSpells = <<>>]

Orbs(n) ==
  <<<<n, <<<<5 * BASE_FIRE_RATE - 1, Calm>>, <<1, [Calm EXCEPT !.keys = {"KeyZ"}]>>>>, "times">>,
    <<5 * BASE_FIRE_RATE - Lead, Calm>>>>

(* the chain weapon and the cannon at level 1 against alpha, which is      *)
(* about to summon two drones; the duo of alptraum once its delta has had  *)
(* the time for four drones                                                *)
BudgetPractice ==
  [PracticeBoss("EASY", "alpha", "CHAIN_LIGHTNING", FALSE)
     EXCEPT !.weapons = <<"CHAIN_LIGHTNING", "GAUSS_CANNON">>, !.equippedSpells = <<>>]

Escorted ==
  InUltimate(2) \o <<<<9 * 60 - (ENTER_TICKS + ALP_FIRE_RATE + 2), Clear>>>>

CapRuns ==
  {<<CapStage, Crowded>>,
   <<OrbPractice(1), Orbs(2)>>,
   <<OrbPractice(2), Orbs(3)>>,
   <<BudgetPractice, <<<<SUMMON_PERIOD - Lead, Clear>>>>>>,
   <<AlpPractice, Escorted>>}

SpecCaps == Start(CapRuns) /\ [][Next]_vars

OracleMinions(s, variant) ==
  Cardinality({k \in 1..Len(s.enemies) :
                 s.enemies[k].type = "oracle_minion" /\ s.enemies[k].variant = variant})

Kind(s, type) == {k \in 1..Len(s.enemies) : s.enemies[k].type = type}

Escort(s, k) ==
  {j \in Kind(s, "seraph_drone") : s.enemies[j].parentId = s.enemies[k].id}

OrbsOut(s) ==
  Cardinality({k \in DOMAIN s.bullets : s.bullets[k].weaponId = "ORBITING_ORBS"})

CapsHold(s, c) ==
  /\ OracleMinions(s, "alpha") <= 13
  /\ OracleMinions(s, "beta") <= 7
  /\ Cardinality(Kind(s, "alp_reflector")) <= 30
  /\ \A k \in Kind(s, "alp_mini_boss") : Cardinality(Escort(s, k)) <= 4
  /\ OrbsOut(s) <= c.weaponLevel + 1

Budgeted(b) == b.weaponId \in {"CHAIN_LIGHTNING", "GAUSS_CANNON"}

PityPractice == [RocketPractice EXCEPT !.pityStacks = 50]

PityRuns == {<<PityPractice, <<<<1, Clear>>, <<1, Cast>>, <<Lead, Clear>>>>>>,
             <<RocketPractice, <<<<1, Clear>>, <<1, Cast>>, <<Lead, Clear>>>>>>}

SpecPity == Start(PityRuns) /\ [][Next]_vars

(* C32: the damage a hit or its splash applies is the damage the           *)
(* projectile was emitted with (less the reduction of the enemy for the    *)
(* direct hit): the attack booster and the pity multiplier are not applied *)
(* a second time at the hit                                                *)
BonusAppliedOnce ==
  \A d \in log.dealt : d.applied = (d.emitted * (100 - d.reduction)) \div 100

(* a rocket emitted with the doubled damage has exploded *)
BoostedRocketExploded ==
  \E d \in log.dealt : d.kind = "splash" /\ d.emitted = 2 * WeaponDamage("ROCKET_BARRAGE", 1)


(***************************************************************************)
(* The animation loop (lines 2197-2223).  Time is counted in ninths of a   *)
(* millisecond, in which STEP = 1000 / 90 ms is 100 and the cap of 100 ms  *)
(* is 900.  deltaTime is time - lastTime, an input of the frame (0 on the  *)
(* first frame).  No event handler runs inside the while loop, so the keys *)
(* of the frame hold for all its steps; the random draws of the steps      *)
(* after the first are the ones of Calm.                                   *)
(***************************************************************************)
STEP == 100
MAX_DELTA == 900

Uncapped(deltaTime) == deltaTime

Capped(deltaTime) == Min(deltaTime, MAX_DELTA)

(* while (accumulator >= STEP) { update(); accumulator -= STEP; } *)
RECURSIVE Drain(_, _, _, _, _)
DrainOn(w, c, in, acc, n) ==
  IF w.st.frame >= 0 THEN Drain(w, c, in, acc, n)
  ELSE [w |-> w, accumulator |-> acc, steps |-> n]

Drain(w, c, in, acc, n) ==
  IF acc >= STEP
  THEN DrainOn(Step(w, c, in), c, [Calm EXCEPT !.keys = in.keys], acc - STEP, n + 1)
  ELSE [w |-> w, accumulator |-> acc, steps |-> n]

(* the frame leaves the world, the rest of the accumulator and its steps *)
Drained(r) == Becomes(r.w) /\ accumulator' = r.accumulator /\ frameSteps' = r.steps

Deltas == {0, 40, 150, 900, 5000}

MaxFrames == 5

loop ==
  /\ ticks < MaxFrames
  /\ \E deltaTime \in Deltas :
       IF isPaused
       THEN frameSteps' = 0 /\ UNCHANGED <<state, outcomes, log, accumulator>>
       ELSE \E in \in Inputs(state, cfg) :
              Drained(Drain([st |-> state, out |-> outcomes, log |-> log], cfg, in,
                            accumulator + Capped(deltaTime), 0))
  /\ ticks' = ticks + 1
  /\ UNCHANGED <<cfg, isPaused>>

LoopNext == loop \/ TogglePause

IdlePractice == [RocketPractice EXCEPT !.weapons = <<>>, !.equippedSpells = <<>>]

LoopRuns == {<<IdlePractice, <<<<1, Clear>>>>>>}

SpecLoop == Start(LoopRuns) /\ [][LoopNext]_vars

(* C33: a frame executes at most 9 update steps however long it took, and  *)
(* leaves less than one step in the accumulator                            *)
CatchUpIsCapped == frameSteps <= 9 /\ accumulator < STEP

(* a frame longer than the cap has run its 9 steps, with time left over    *)
(* from the frames before                                                  *)
LongFrameRan == frameSteps = 9 /\ accumulator > 0


(***************************************************************************)
(* Practice from the first frame, against a mob and against alpha, and     *)
(* against alpha shortly before the first summon of frame 840.             *)
(***************************************************************************)
PracticeRuns ==
  {<<PracticeMob, <<>>>>,
   <<IdlePractice, <<>>>>,
   <<IdlePractice, <<<<SUMMON_PERIOD - Lead, Clear>>>>>>}

SpecPractice == Start(PracticeRuns) /\ [][Next]_vars

(* the enemies of t that were not in s *)
Introduced(s, t) ==
  {t.enemies[k] : k \in {j \in DOMAIN t.enemies :
                           \A i \in DOMAIN s.enemies : s.enemies[i].id # t.enemies[j].id}}

(* mob practice introduces only the practised mob type and no boss *)
MobPracticeOnlyTarget ==
  cfg.practice = "mob" =>
     /\ log'.bossSpawns = 0
     /\ \A e \in Introduced(state, state') : e.type = cfg.practiceMob

(* boss practice generates its boss in the first step and never again *)
BossPracticeOneBoss ==
  cfg.practice = "boss" => log'.bossSpawns = (IF state.frame = 0 THEN 1 ELSE 0)

(* C34 as stated: in practice the only enemies introduced are the target:  *)
(* the practised mob type and no boss, or the boss, once, and no mob       *)
PracticeOnlyTarget ==
  [][Stepped =>
       /\ MobPracticeOnlyTarget
       /\ BossPracticeOneBoss
       /\ cfg.practice = "boss" =>
            \A e \in Introduced(state, state') :
               e.type = "boss" /\ e.variant = cfg.practiceVariant]_vars

(* C34: in practice the spawn director introduces only the target: the     *)
(* practised mob type and no boss, or the boss, once, and no mob of its    *)
(* own (the boss's summoning still adds mobs)                              *)
PracticeDirectorOnlyTarget ==
  [][Stepped =>
       /\ MobPracticeOnlyTarget
       /\ BossPracticeOneBoss
       /\ cfg.practice = "boss" => log'.mobSpawns = <<>>]_vars

(* the practised boss has summoned its two mobs while the director spawned *)
(* nothing                                                                 *)
BossSummonedInPractice ==
  /\ cfg.practice = "boss" /\ state.bossActive
  /\ log.bossEmits # {} /\ log.mobSpawns = <<>>
  /\ \E k \in DOMAIN state.enemies : state.enemies[k].type # "boss"


(***************************************************************************)
(* Runs that leave the player one hit from hp <= 0, with and without a     *)
(* revive: practice against alpha after four contacts, with the boss about *)
(* to fire, and practice against kamikazes after three strikes.            *)
(***************************************************************************)
Unarmed(c, extraLife) ==
  [c EXCEPT !.weapons = <<>>, !.equippedSpells = <<>>, !.extraLife = extraLife]

ReviveRuns ==
  {<<Unarmed(RocketPractice, life), InFight(RocketPractice)>> : life \in BOOLEAN}
  \cup {<<Unarmed(PracticeMob, life), ThreeStrikes>> : life \in BOOLEAN}

SpecRevive == Start(ReviveRuns) /\ [][Next]_vars

(* C35: a player brought to hp <= 0 with a revive left spends exactly one  *)
(* revive, is set to maxHp with 120 ticks of invulnerability and emits no  *)
(* outcome; the revives never go below 0, and a run is lost only at        *)
(* hp <= 0 with no revive left                                             *)
ReviveOrLoss ==
  [][Stepped =>
       /\ state'.player.revives >= 0
       /\ (log'.revived # {}) = (state'.player.revives < state.player.revives)
       /\ \A r \in log'.revived :
             /\ r.fallen <= 0 /\ r.had > 0 /\ r.revives = r.had - 1
             /\ r.hp = r.maxHp
             /\ r.invulnerableTime = REVIVE_INVULN
             /\ r.emitted = 0
       /\ \A k \in (Len(outcomes) + 1)..Len(outcomes') :
             ~outcomes'[k].win => state'.player.hp <= 0 /\ state'.player.revives = 0]_vars

(* a contact and a kamikaze strike have each been answered by the revive,  *)
(* which left the player at full hp                                        *)
RevivedAtFullHp ==
  /\ log.revived # {} /\ outcomes = <<>>
  /\ state.player.hp = state.player.maxHp /\ state.player.revives = 0


(* the non-dead bosses of the enemy list *)
LiveBosses(s) == {k \in Bosses(s) : ~s.enemies[k].dead}

(* bossActive says that state.boss is the one non-dead boss of the list;    *)
BossFlagMatches(s) ==
  s.bossActive = (/\ s.boss # NoBoss
                  /\ Cardinality(LiveBosses(s)) = 1
                  /\ \A k \in LiveBosses(s) : s.enemies[k].id = s.boss)

(* C36: at every tick boundary bossActive holds exactly when state.boss is *)
(* the single non-dead boss of the enemy list, and the boss stays in the   *)
(* list while bossActive stays true                                        *)
BossActiveIffBoss ==
  [][Stepped =>
       /\ BossFlagMatches(state')
       /\ (state.bossActive /\ state'.bossActive) =>
             \E k \in LiveBosses(state') : state'.enemies[k].id = state.boss]_vars

(* the boss has been killed in a stage that goes on: the flag and the      *)
(* reference are cleared and no boss is left in the list                   *)
BossGoneAndFlagCleared ==
  /\ ~state.bossActive /\ state.boss = NoBoss /\ Bosses(state) = {}
  /\ state.stats.bossKills > 0 /\ ~state.isGameOver /\ ticks > 0

(* C37: the player loses hp or shield only while the invulnerability       *)
(* counter is at 0: a hit that grants invulnerability is followed by no    *)
(* other until the counter has run out, in the same tick or later          *)
InvulnerableMeansUnhurt ==
  [][Stepped =>
       /\ \A t \in log'.hurtAt : t = 0
       /\ state.player.invulnerableTime > 0 =>
             /\ state'.player.hp >= state.player.hp
             /\ state'.player.shield >= state.player.shield]_vars

(***************************************************************************)
(* Practice with the aegis shield at level 1 and no weapon: against alpha, *)
(* after the cast and two contacts with the boss, and against kamikazes,   *)
(* after the cast and one strike.                                          *)
(***************************************************************************)
Shielded(c) == [c EXCEPT !.weapons = <<>>, !.equippedSpells = <<"AEGIS_SHIELD">>]

CastHug == [Hug EXCEPT !.keys = {"KeyX"}]

CastDive == [Dive EXCEPT !.keys = {"KeyX"}]

ShieldRuns ==
  {<<Shielded(RocketPractice), <<<<1, CastHug>>, <<SHIELD_INVULN + 1, Hug>>, <<SHIELD_INVULN, Clear>>>>>>,
   <<Shielded(PracticeMob), <<<<1, CastDive>>, <<SHIELD_INVULN, Dive>>>>>>}

SpecShield == Start(ShieldRuns) /\ [][Next]_vars

(* C38: the shield pool of the player never becomes negative *)
ShieldNeverNegative == state.player.shield >= 0

(***************************************************************************)
(* Practice against revenant with the gauss cannon, in the attack phase    *)
(* that lays mines, shortly before the cannon is due.                      *)
(***************************************************************************)
MinePractice ==
  [PracticeBoss("EASY", "revenant", "GAUSS_CANNON", FALSE) EXCEPT !.equippedSpells = <<>>]

MineDue == <<<<19 * GAUSS_PERIOD, Tidy>>, <<2 * GAUSS_PERIOD - Lead, Sweep>>>>

MineRuns == {<<MinePractice, MineDue>>}

(* one call of update() in which nothing reaches the ship or the boss: the *)
(* events left are the shots, the mines and the projectiles that leave    *)
Sap ==
  /\ ~isPaused /\ ~state.isGameOver /\ ticks < MaxTicks
  /\ \E in \in {i \in Inputs(state, cfg) : /\ i.struck = "none" /\ i.touch = "none"
                                           /\ i.target = "none" /\ i.near = "none"} :
       Becomes(update([st |-> state, out |-> outcomes, log |-> log], cfg, in))
  /\ ticks' = ticks + 1
  /\ UNCHANGED <<cfg, isPaused, accumulator, frameSteps>>

SapNext == Sap \/ TogglePause

SpecMine == Start(MineRuns) /\ [][SapNext]_vars

(* C39: a mine explodes at most once: it emits one ring of shards, of 7    *)
(* when it was shot down or of 8 when its fuse ran out or the player came  *)
(* within range, never both rings.                                         *)
MineExplodesOnce ==
  \A r \in log.rings : \A q \in log.rings : r.id = q.id => r.shards = q.shards
(***************************************************************************)
(* Practice against somniomancer with the ship steered: to the far corner  *)
(* by the time the gravity is drawn, and to the near corner with the       *)
(* gravity running.                                                        *)
(***************************************************************************)
SteerPractice ==
  [PracticeBoss("EASY", "somniomancer", "PLASMA_CUTTER", FALSE)
     EXCEPT !.weapons = <<>>, !.equippedSpells = <<>>]

Steering ==
  {{}, {"ArrowUp", "ShiftLeft"}, {"KeyA"}, {"ArrowDown", "KeyD"}, {"KeyW", "KeyS"}}

Helm(keys) == [Tidy EXCEPT !.keys = keys]

SteerRuns ==
  {<<SteerPractice, <<<<GRAVITY_PERIOD - Lead, Helm({"ArrowDown", "ArrowRight"})>>>>>>,
   <<SteerPractice, <<<<GRAVITY_PERIOD - 1, Helm({})>>,
                      <<1, [Helm({}) EXCEPT !.gravity = [x |-> -85, y |-> -85]]>>,
                      <<GRAVITY_PERIOD \div 2, Helm({"ArrowUp", "ArrowLeft"})>>>>>>}

(* one call of update() with the ship steered *)
Pilot ==
  /\ ~isPaused /\ ~state.isGameOver /\ ticks < MaxTicks
  /\ \E keys \in Steering :
     \E g \in (IF GravityDue(state) THEN Directions ELSE {Calm.gravity}) :
       Becomes(update([st |-> state, out |-> outcomes, log |-> log], cfg,
                      [Helm(keys) EXCEPT !.gravity = g]))
  /\ ticks' = ticks + 1
  /\ UNCHANGED <<cfg, isPaused, accumulator, frameSteps>>

PilotNext == Pilot \/ TogglePause

SpecSteer == Start(SteerRuns) /\ [][PilotNext]_vars

InArena(p) ==
  /\ p.width <= p.x /\ p.x <= CANVAS_WIDTH - p.width
  /\ p.height <= p.y /\ p.y <= CANVAS_HEIGHT - p.height

(* C40: after every step the ship lies inside the arena, whatever keys are *)
(* held and whatever gravity somniomancer applies.                         *)
PlayerInArena == InArena(state.player)

(* the ship at the wall with the gravity pushing it outwards *)
PushedAtTheWall ==
  /\ state.player.x = CANVAS_WIDTH - state.player.width /\ state.player.vx > 0
  /\ state.frame > GRAVITY_PERIOD
====
